---------------------------- MODULE Spec2Model ----------------------------
(***************************************************************************)
(* A model of clAI's generation-to-execution pipeline:                     *)
(*   - ProviderChain::complete and the OpenRouter provider's retry loop    *)
(*     (src/src/ai/chain.rs, src/src/ai/providers/openrouter.rs),          *)
(*   - the dangerous-command detector (src/src/safety/),                   *)
(*   - the orchestrator handle_cli with its two prompts (src/src/main.rs,  *)
(*     src/src/safety/confirmation.rs, src/src/safety/interactive.rs).     *)
(* Text is modelled as sequences of one-character strings, so that         *)
(* formatting, substring search and trimming are computed as the code      *)
(* computes them.                                                          *)
(***************************************************************************)
EXTENDS Integers, Sequences, FiniteSets, TLC

VARIABLES
    \* ---- ProviderChain (chain.rs) and OpenRouterProvider (openrouter.rs)
    providers,            \* ProviderChain.providers: names in fallback order
    api_key,              \* the OpenRouter key init_provider resolves
    provider_instances,   \* ProviderChain.provider_instances (the cache)
    cpc,                  \* where complete stands
    index,                \* loop index of complete (1-based)
    last_error,           \* complete's last_error
    retries,              \* make_request_with_retry's retries
    delay,                \* make_request_with_retry's delay, in seconds
    attempts,             \* make_request calls of the current provider call
    sleeps,               \* delays slept in the current provider call
    call_result,          \* what the last provider call returned
    trace,                \* what complete did at each index, in order
    failure,              \* the error most recently produced, with its index
    result,               \* what complete returned
    mutex,                \* the Mutex of provider_instances: the thread holding it
    callers,              \* concurrent complete calls: where each stands in get_provider
    constructed,          \* the indexes init_provider built an instance for, in order
    provider_config,      \* config.provider of the chain: default and fallback
    model_call,           \* parse_model: the string it was given and the pair it returned
    \* ---- the dangerous-command detector (safety/patterns.rs, detector.rs)
    DANGEROUS_REGEXES,    \* the OnceLock: NoneV until the first compilation
    det_call,             \* the last detector call: its arguments and result
    pattern_call,         \* the latest call of get_matching_pattern
    \* ---- the response parser (ai/prompt.rs)
    response_content,     \* response.content: the model's reply
    parse_call,           \* the last call of the parser: function and result
    \* ---- the orchestrator (main.rs) and its prompts (safety/)
    config,               \* Config: interactive, force, dry_run, num_options
    file_config,          \* FileConfig.safety
    tty,                  \* which of stdin, stdout, stderr are terminals
    interrupted,          \* the flag the signal handlers set
    ppc,                  \* where main / handle_cli stands
    commands_result,      \* what generation returned
    branch,               \* the branch handle_cli took after generation
    danger_read,          \* what the danger prompt read from stdin
    decision,             \* what handle_dangerous_confirmation returned
    selected_index,       \* prompt_command_action's selected_index (0-based)
    tabs,                 \* Tab presses the selection prompt has handled
    last_event,           \* the last event the selection prompt read
    raw_mode,             \* whether the terminal is in raw mode
    restore,              \* what disable_raw_mode did: "none", "ok", "failed"
    action,               \* what prompt_command_action returned
    stdout,               \* the characters written to standard output
    executed,             \* the commands handed to execute_command
    child,                \* the process execute_command ran, and how it ended
    outcome,              \* what handle_cli returned
    exit_code             \* the code the process exited with

lockVars == <<mutex, callers, constructed>>

cfgVars == <<provider_config, model_call>>

chainVars == <<providers, api_key, provider_instances, cpc, index, last_error,
               retries, delay, attempts, sleeps, call_result, trace, failure,
               result, lockVars, cfgVars>>

detVars == <<DANGEROUS_REGEXES, det_call, pattern_call>>

parserVars == <<response_content, parse_call>>

pipeVars == <<config, file_config, tty, interrupted, ppc, commands_result,
              branch, danger_read, decision, selected_index, tabs, last_event,
              raw_mode, restore, action, stdout, executed, child, outcome,
              exit_code>>

vars == <<chainVars, detVars, parserVars, pipeVars>>

---------------------------------------------------------------------------
(* Option and Result values *)

NoneV == [some |-> FALSE]
Some(x) == [some |-> TRUE, v |-> x]
Ok(x) == [ok |-> TRUE, v |-> x]
Err(e) == [ok |-> FALSE, e |-> e]

---------------------------------------------------------------------------
(* Text *)

\* str::contains: sub occurs in s as a contiguous run of characters
Contains(s, sub) ==
    \E i \in 1..(Len(s) - Len(sub) + 1) : SubSeq(s, i, i + Len(sub) - 1) = sub

DigitChars == <<"0","1","2","3","4","5","6","7","8","9">>

\* the decimal rendering of a three-digit status code ({} of a u16)
StatusText(code) ==
    << DigitChars[(code \div 100) + 1],
       DigitChars[((code \div 10) % 10) + 1],
       DigitChars[(code % 10) + 1] >>

OPENROUTER ==
    <<"o","p","e","n","r","o","u","t","e","r">>
TxtProvider ==
    <<"P","r","o","v","i","d","e","r"," ">>
TxtAllFailed ==
    <<"A","l","l"," ","p","r","o","v","i","d","e","r","s"," ","i","n"," ","c","h","a","i","n"," ","f","a","i","l","e","d">>
Txt429 ==
    <<"4","2","9">>

---------------------------------------------------------------------------
(* Bounds and input sets *)

\* longest provider.fallback list of a FileConfig
MaxFallback == 2

\* provider names a configuration may hold
ProviderNames == {OPENROUTER, <<"o","l","l","a","m","a">>}

\* error bodies and library error texts
ErrTexts == {<< >>, Txt429}

\* what one HTTP exchange can come to: a send error, a non-2xx status, a
\* body that does not decode, or a reply with its content
Outcomes ==
    [kind : {"send_err"}, text : ErrTexts]
      \cup [kind : {"status"}, code : {401, 408, 429, 500}, text : ErrTexts]
      \cup [kind : {"decode_err"}, text : ErrTexts]
      \cup [kind : {"ok"}, content : {<<"l","s">>, <<"r","m">>}]

RECURSIVE SeqsUpTo(_, _)
SeqsUpTo(S, n) ==
    IF n = 0 THEN {<< >>}
    ELSE LET shorter == SeqsUpTo(S, n - 1)
         IN  shorter \cup {Append(s, x) : s \in {t \in shorter : Len(t) = n - 1}, x \in S}

---------------------------------------------------------------------------
(* ProviderChain *)

\* ProviderChain::new: the fallback list, the default put in front unless
\* the list already holds it
ChainNew(default, fallback) ==
    IF \E i \in 1..Len(fallback) : fallback[i] = default
    THEN fallback
    ELSE <<default>> \o fallback

\* ProviderChain::init_provider
InitProvider(name, key) ==
    IF name = OPENROUTER
    THEN IF key = "absent" THEN Err(<<"O","p","e","n","R","o","u","t","e","r"," ","A","P","I"," ","k","e","y"," ","n","o","t"," ","f","o","u","n","d">>) ELSE Ok(key)
    ELSE Err(<<"U","n","k","n","o","w","n"," ","p","r","o","v","i","d","e","r",":"," ">> \o name)

\* ProviderChain::get_provider: the result, and the cache afterwards
GetProvider(instances, names, i, key) ==
    IF i <= Len(instances) /\ instances[i].some
    THEN [res |-> Ok(instances[i].v), instances |-> instances]
    ELSE LET p == InitProvider(names[i], key)
         IN  IF ~p.ok
             THEN [res |-> p, instances |-> instances]
             ELSE LET resized == IF Len(instances) <= i - 1
                                 THEN instances \o [k \in 1..(i - Len(instances)) |-> NoneV]
                                 ELSE instances
                  IN  [res |-> p,
                       instances |-> [resized EXCEPT ![i] = Some(p.v)]]

\* OpenRouterProvider::is_available
IsAvailable(provider) == provider # "empty"

\* the error complete records when a provider is not available
NotAvailableError(name) == TxtProvider \o name \o <<" ","i","s"," ","n","o","t"," ","a","v","a","i","l","a","b","l","e">>

\* the error complete records when a provider's call fails
ProviderFailedError(name, e) == TxtProvider \o name \o <<" ","f","a","i","l","e","d",":"," ">> \o e

\* a chain that keeps the first error instead of the last
RecordErrorKeepsFirst(prev, e) == IF prev.some THEN prev ELSE Some(e)

\* complete: last_error = Some(e)
RecordError(prev, e) == Some(e)

\* complete: continue
NextIndex(i) == i + 1

\* complete: the error returned after the loop
FinalError(last) == IF last.some THEN last.v ELSE TxtAllFailed

---------------------------------------------------------------------------
(* OpenRouterProvider *)

\* make_request: the error message of a non-2xx status
StatusErrorMsg(code, text) ==
    IF code \in {401, 403}
    THEN <<"A","u","t","h","e","n","t","i","c","a","t","i","o","n"," ","e","r","r","o","r"," ","(">> \o StatusText(code) \o <<")",":"," ","I","n","v","a","l","i","d"," ","o","r"," ","m","i","s","s","i","n","g"," ","A","P","I"," ","k","e","y","."," ">> \o text
    ELSE IF code = 429
    THEN <<"R","a","t","e"," ","l","i","m","i","t"," ","e","r","r","o","r"," ","(">> \o StatusText(code) \o <<")",":"," ","T","o","o"," ","m","a","n","y"," ","r","e","q","u","e","s","t","s","."," ">> \o text
    ELSE IF code \in {408, 504}
    THEN <<"T","i","m","e","o","u","t"," ","e","r","r","o","r"," ","(">> \o StatusText(code) \o <<")",":"," ","R","e","q","u","e","s","t"," ","t","i","m","e","d"," ","o","u","t","."," ">> \o text
    ELSE <<"A","P","I"," ","e","r","r","o","r"," ","(">> \o StatusText(code) \o <<")",":"," ">> \o text

\* make_request: the Result of one HTTP exchange; an error's text is what
\* to_string() gives, the outermost context of the anyhow error
MakeRequest(o) ==
    CASE o.kind = "send_err"   -> Err(<<"A","P","I"," ","r","e","q","u","e","s","t"," ","f","a","i","l","e","d">>)
      [] o.kind = "status"     -> Err(StatusErrorMsg(o.code, o.text))
      [] o.kind = "decode_err" -> Err(<<"F","a","i","l","e","d"," ","t","o"," ","p","a","r","s","e"," ","O","p","e","n","R","o","u","t","e","r"," ","r","e","s","p","o","n","s","e",":"," ">> \o o.text)
      [] OTHER                 -> Ok(o.content)

\* make_request_with_retry: let mut retries = 3
InitialRetries == 3

\* make_request_with_retry: let mut delay = Duration::from_secs(1)
InitialDelay == 1

\* make_request_with_retry: e.to_string().contains("429") && retries > 0
ShouldRetry(e, left) == Contains(e, Txt429) /\ left > 0

\* a backoff that grows by one second instead of doubling
NextDelayLinear(d) == d + 1

\* make_request_with_retry: delay *= 2
NextDelay(d) == d * 2

\* how an attempt is entered in the attempts log
AttemptKind(o) ==
    CASE o.kind = "ok" -> "ok"
      [] o.kind = "status" /\ o.code = 429 -> "rate_limited"
      [] OTHER -> "other_error"

---------------------------------------------------------------------------
(* Regular expressions: the part of the regex crate's syntax the built-in *)
(* and the modelled patterns use: literals, escapes, \s \w \d, '.', a     *)
(* range class [x-y] of lower-case letters, '$', and the repetitions '+'  *)
(* and '*' of one atom.  The patterns of the model hold no ')' and no     *)
(* ']' outside a range class, so '(' and a '[' that opens no range are an *)
(* unclosed group and an unclosed class: Regex::new fails on them.        *)

LowerLetters ==
    <<"a","b","c","d","e","f","g","h","i","j","k","l","m","n","o","p","q","r","s","t","u","v","w","x","y","z">>
UpperLetters ==
    <<"A","B","C","D","E","F","G","H","I","J","K","L","M","N","O","P","Q","R","S","T","U","V","W","X","Y","Z">>

WhitespaceChars == {" ", "\t", "\n", "\r"}
DigitSet == {DigitChars[i] : i \in 1..10}
LowerSet == {LowerLetters[i] : i \in 1..26}

LetterIndex(c) == CHOOSE i \in 1..26 : LowerLetters[i] = c

\* whether character ch belongs to the class of atom a
ClassHas(a, ch) ==
    CASE a.cls = "lit"   -> ch = a.c
      [] a.cls = "ws"    -> ch \in WhitespaceChars
      [] a.cls = "word"  -> ch \in LowerSet \cup {UpperLetters[i] : i \in 1..26}
                                    \cup DigitSet \cup {"_"}
      [] a.cls = "digit" -> ch \in DigitSet
      [] a.cls = "any"   -> ch # "\n"
      [] a.cls = "range" -> /\ ch \in LowerSet
                            /\ LetterIndex(a.c) <= LetterIndex(ch)
                            /\ LetterIndex(ch) <= LetterIndex(a.hi)
      [] OTHER           -> FALSE

Atom(cls, c, hi, n) == [ok |-> TRUE, cls |-> cls, c |-> c, hi |-> hi, n |-> n]
NoAtom == [ok |-> FALSE]

\* the atom that starts at src[i], with the number of characters it takes
AtomAt(src, i) ==
    CASE src[i] = "\\" ->
           IF i + 1 > Len(src) THEN NoAtom
           ELSE CASE src[i + 1] = "s" -> Atom("ws", "", "", 2)
                  [] src[i + 1] = "w" -> Atom("word", "", "", 2)
                  [] src[i + 1] = "d" -> Atom("digit", "", "", 2)
                  [] OTHER            -> Atom("lit", src[i + 1], "", 2)
      [] src[i] = "[" ->
           IF /\ i + 4 <= Len(src)
              /\ src[i + 1] \in LowerSet
              /\ src[i + 2] = "-"
              /\ src[i + 3] \in LowerSet
              /\ src[i + 4] = "]"
           THEN Atom("range", src[i + 1], src[i + 3], 5)
           ELSE NoAtom
      [] src[i] \in {"(", ")", "+", "*", "?"} -> NoAtom
      [] src[i] = "$" -> Atom("end", "", "", 1)
      [] src[i] = "." -> Atom("any", "", "", 1)
      [] OTHER   -> Atom("lit", src[i], "", 1)

\* the repetition operator at src[q], if there is one
RepAt(src, q) ==
    IF q <= Len(src) /\ src[q] = "+" THEN "plus"
    ELSE IF q <= Len(src) /\ src[q] = "*" THEN "star"
    ELSE "one"

\* the one element of a singleton set: {e(x) : x \in {v}} names v by x in e
The(S) == CHOOSE x \in S : TRUE

RECURSIVE ParseRegex(_, _, _)
ParseRegex(src, i, acc) ==
    IF i > Len(src) THEN Ok(acc)
    ELSE The({ IF ~a.ok THEN Err("regex parse error")
               ELSE The({ ParseRegex(src,
                                     IF r = "one" THEN i + a.n ELSE i + a.n + 1,
                                     Append(acc, [cls |-> a.cls, c |-> a.c,
                                                  hi |-> a.hi, rep |-> r]))
                          : r \in {RepAt(src, i + a.n)} })
               : a \in {AtomAt(src, i)} })

\* Regex::new: the compiled expression, which keeps its source, or an error
RegexNew(pattern) ==
    The({ IF p.ok THEN Ok([src |-> pattern, toks |-> p.v]) ELSE p
          : p \in {ParseRegex(pattern, 1, << >>)} })

RECURSIVE MatchHere(_, _, _, _)
MatchHere(toks, t, s, i) ==
    IF t > Len(toks) THEN TRUE
    ELSE CASE toks[t].cls = "end" ->
                i = Len(s) + 1 /\ MatchHere(toks, t + 1, s, i)
           [] toks[t].cls # "end" /\ toks[t].rep = "one" ->
                /\ i <= Len(s)
                /\ ClassHas(toks[t], s[i])
                /\ MatchHere(toks, t + 1, s, i + 1)
           [] OTHER ->
                \E n \in (IF toks[t].rep = "plus" THEN 1 ELSE 0)..(Len(s) - i + 1) :
                    /\ \A j \in i..(i + n - 1) : ClassHas(toks[t], s[j])
                    /\ MatchHere(toks, t + 1, s, i + n)

\* Regex::is_match: the expression matches somewhere in s
IsMatch(regex, s) == \E i \in 1..(Len(s) + 1) : MatchHere(regex.toks, 1, s, i)

---------------------------------------------------------------------------
(* The dangerous-command detector *)

PatRmRf ==
    <<"r","m"," ","-","r","f">>
PatMkfs ==
    <<"m","k","f","s">>
PatFormat ==
    <<"f","o","r","m","a","t">>

\* patterns.rs default_dangerous_patterns: used when the configured list
\* is empty
DefaultDangerousPatterns ==
    <<<<"r","m","\\","s","+","-","r","f","\\","s","+","/">>,
      <<"r","m","\\","s","+","-","r","f","\\","s","+","/","\\","s","*","$">>,
      <<"d","d","\\","s","+","i","f","=","/","d","e","v","/","z","e","r","o">>,
      <<"m","k","f","s","\\",".","\\","w","+","\\","s","+","/","d","e","v","/">>,
      <<"s","u","d","o","\\","s","+","r","m","\\","s","+","-","r","f","\\","s","+","/">>,
      <<">","\\","s","*","/","d","e","v","/">>,
      <<"f","o","r","m","a","t","\\","s","+","[","c","-","z","]",":">>,
      <<"d","e","l","\\","s","+","/","f","\\","s","+","/","s","\\","s","+","[","c","-","z","]",":","\\","\\">>>>

\* config/file.rs default_dangerous_patterns: safety.dangerous_patterns of
\* a configuration that does not set it
FileDefaultPatterns ==
    <<PatRmRf,
      <<"s","u","d","o"," ","r","m">>,
      PatMkfs,
      <<"d","d"," ","i","f","=">>,
      <<">"," ","/","d","e","v","/">>,
      PatFormat>>

RECURSIVE CompileFrom(_, _, _)
CompileFrom(patterns, i, acc) ==
    IF i > Len(patterns) THEN Ok(acc)
    ELSE The({ IF r.ok
               THEN CompileFrom(patterns, i + 1, Append(acc, r.v))
               ELSE Err(<<"I","n","v","a","l","i","d"," ","r","e","g","e","x"," ","p","a","t","t","e","r","n"," ","i","n"," ","d","a","n","g","e","r","o","u","s","_","p","a","t","t","e","r","n","s"," ","c","o","n","f","i","g">>)
               : r \in {RegexNew(patterns[i])} })

\* compile_dangerous_regexes: every pattern compiled, in order, or the
\* error of the first one that is no regular expression
CompileDangerousRegexes(dangerous_patterns) ==
    CompileFrom(IF dangerous_patterns = << >>
                THEN DefaultDangerousPatterns
                ELSE dangerous_patterns, 1, << >>)

\* a cell that is compiled anew from the configuration of every call
GetDangerousRegexesRecompiled(cache, dangerous_patterns) ==
    The({ [cache |-> Some(cell),
           res   |-> IF cell.ok THEN cell ELSE Err(cell.e)]
          : cell \in {CompileDangerousRegexes(dangerous_patterns)} })

\* get_dangerous_regexes: get_or_init on the OnceLock, then the cell's
\* content as a Result
GetDangerousRegexes(cache, dangerous_patterns) ==
    The({ [cache |-> Some(cell),
           res   |-> IF cell.ok THEN cell ELSE Err(<<"F","a","i","l","e","d"," ","t","o"," ","c","o","m","p","i","l","e"," ","d","a","n","g","e","r","o","u","s"," ","p","a","t","t","e","r","n","s",":"," ">> \o cell.e)]
          : cell \in {IF cache.some THEN cache.v
                      ELSE CompileDangerousRegexes(dangerous_patterns)} })

\* a detector that lets a command pass when the patterns do not compile
CompileFailureVerdictPasses == FALSE

\* is_dangerous_command: Err(_) => return true
CompileFailureVerdict == TRUE

\* is_dangerous_command: the verdict, and the OnceLock afterwards
IsDangerousCommand(command, dangerous_patterns, cache) ==
    The({ [cache |-> g.cache,
           res   |-> IF ~g.res.ok THEN CompileFailureVerdict
                     ELSE \E k \in 1..Len(g.res.v) : IsMatch(g.res.v[k], command)]
          : g \in {GetDangerousRegexes(cache, dangerous_patterns)} })

CmdLs ==
    <<"l","s">>
CmdRmRoot ==
    <<"r","m"," ","-","r","f"," ","/">>
BadPattern ==
    <<"[","i","n","v","a","l","i","d">>

HasInvalidPattern(dangerous_patterns) ==
    \E k \in 1..Len(dangerous_patterns) : ~RegexNew(dangerous_patterns[k]).ok

\* one call of is_dangerous_command(command, config), on the commands the
\* detector is asked about and the safety.dangerous_patterns lists a
\* configuration may hold
DetectorCall ==
    \E command \in {CmdLs, <<"l","s"," ","-","l","a">>, CmdRmRoot,
                    <<"f","o","r","m","a","t"," ","c",":">>},
       dp \in {FileDefaultPatterns, << >>, <<CmdLs>>, <<PatFormat, PatMkfs>>,
               <<PatRmRf, BadPattern>>, <<BadPattern>>} :
        \E r \in {IsDangerousCommand(command, dp, DANGEROUS_REGEXES)} :
            /\ DANGEROUS_REGEXES' = r.cache
            /\ det_call' = [fn |-> "is_dangerous_command", command |-> command,
                            dangerous_patterns |-> dp,
                            compiled |-> ~DANGEROUS_REGEXES.some,
                            res |-> r.res]
    /\ UNCHANGED <<chainVars, parserVars, pipeVars, pattern_call>>

\* get_matching_pattern: the first regex of the cell that matches, with the
\* string the configuration holds at its index, and the OnceLock afterwards
GetMatchingPattern(command, dangerous_patterns, cache) ==
    The({ [cache |-> g.cache,
           res   |-> IF ~g.res.ok THEN NoneV
                     ELSE IF ~\E k \in 1..Len(g.res.v) : IsMatch(g.res.v[k], command)
                     THEN NoneV
                     ELSE The({ Some(<<k - 1,
                                       IF k <= Len(dangerous_patterns)
                                       THEN dangerous_patterns[k]
                                       ELSE <<"p","a","t","t","e","r","n","_">> \o <<DigitChars[k]>>>>)
                                : k \in {j \in 1..Len(g.res.v) :
                                            /\ IsMatch(g.res.v[j], command)
                                            /\ \A i \in 1..(j - 1) : ~IsMatch(g.res.v[i], command)} })]
          : g \in {GetDangerousRegexes(cache, dangerous_patterns)} })

\* one call of get_matching_pattern(command, config)
MatchingPatternCall ==
    \E command \in {CmdLs, <<"l","s"," ","-","l","a">>, CmdRmRoot,
                    <<"f","o","r","m","a","t"," ","c",":">>},
       dp \in {FileDefaultPatterns, << >>, <<CmdLs>>, <<PatFormat, PatMkfs>>,
               <<PatRmRf, BadPattern>>, <<BadPattern>>} :
        \E r \in {GetMatchingPattern(command, dp, DANGEROUS_REGEXES)} :
            /\ DANGEROUS_REGEXES' = r.cache
            /\ pattern_call' = [command |-> command,
                                dangerous_patterns |-> dp,
                                compiled |-> ~DANGEROUS_REGEXES.some,
                                res |-> r.res]
    /\ UNCHANGED <<chainVars, parserVars, pipeVars, det_call>>

DetInit ==
    /\ DANGEROUS_REGEXES = NoneV
    /\ det_call = NoneV
    /\ pattern_call = NoneV

---------------------------------------------------------------------------
(* complete, one loop iteration at a time *)

InLoop == cpc = "loop" /\ index <= Len(providers)

Got == GetProvider(provider_instances, providers, index, api_key)

\* a loop that stops at the first provider that fails to initialize
ChainInitFailsBreaks ==
    /\ InLoop
    /\ ~Got.res.ok
    /\ last_error' = RecordError(last_error, Got.res.e)
    /\ failure' = [index |-> index, msg |-> Got.res.e]
    /\ trace' = Append(trace, [index |-> index, ev |-> "init_failed"])
    /\ provider_instances' = Got.instances
    /\ index' = Len(providers) + 1
    /\ UNCHANGED <<detVars, parserVars, pipeVars, lockVars, cfgVars, providers, api_key, cpc, retries, delay, attempts, sleeps,
                   call_result, result>>

\* get_provider fails: the error is recorded, the loop continues
ChainInitFails ==
    /\ InLoop
    /\ ~Got.res.ok
    /\ last_error' = RecordError(last_error, Got.res.e)
    /\ failure' = [index |-> index, msg |-> Got.res.e]
    /\ trace' = Append(trace, [index |-> index, ev |-> "init_failed"])
    /\ provider_instances' = Got.instances
    /\ index' = NextIndex(index)
    /\ UNCHANGED <<detVars, parserVars, pipeVars, lockVars, cfgVars, providers, api_key, cpc, retries, delay, attempts, sleeps,
                   call_result, result>>

\* the provider is there but is_available() is false
ChainUnavailable ==
    /\ InLoop
    /\ Got.res.ok
    /\ ~IsAvailable(Got.res.v)
    /\ last_error' = RecordError(last_error, NotAvailableError(providers[index]))
    /\ failure' = [index |-> index, msg |-> NotAvailableError(providers[index])]
    /\ trace' = Append(trace, [index |-> index, ev |-> "unavailable"])
    /\ provider_instances' = Got.instances
    /\ index' = NextIndex(index)
    /\ UNCHANGED <<detVars, parserVars, pipeVars, lockVars, cfgVars, providers, api_key, cpc, retries, delay, attempts, sleeps,
                   call_result, result>>

\* provider.complete(request) is entered: make_request_with_retry starts
ChainCall ==
    /\ InLoop
    /\ Got.res.ok
    /\ IsAvailable(Got.res.v)
    /\ provider_instances' = Got.instances
    /\ cpc' = "request"
    /\ retries' = InitialRetries
    /\ delay' = InitialDelay
    /\ attempts' = << >>
    /\ sleeps' = << >>
    /\ call_result' = NoneV
    /\ UNCHANGED <<detVars, parserVars, pipeVars, lockVars, cfgVars, providers, api_key, index, last_error, trace, failure, result>>

\* make_request answers Ok: the provider call and complete both return it
RequestSucceeds ==
    /\ cpc = "request"
    /\ \E o \in Outcomes :
        /\ MakeRequest(o).ok
        /\ attempts' = Append(attempts, AttemptKind(o))
        /\ call_result' = MakeRequest(o)
        /\ trace' = Append(trace, [index |-> index, ev |-> "call_ok"])
        /\ result' = Ok(MakeRequest(o).v)
    /\ cpc' = "done"
    /\ UNCHANGED <<detVars, parserVars, pipeVars, lockVars, cfgVars, providers, api_key, provider_instances, index, last_error,
                   retries, delay, sleeps, failure>>

\* make_request answers Err and the loop of make_request_with_retry goes on
RequestRetries ==
    /\ cpc = "request"
    /\ \E o \in Outcomes :
        /\ ~MakeRequest(o).ok
        /\ ShouldRetry(MakeRequest(o).e, retries)
        /\ attempts' = Append(attempts, AttemptKind(o))
    /\ retries' = retries - 1
    /\ cpc' = "sleep"
    /\ UNCHANGED <<detVars, parserVars, pipeVars, lockVars, cfgVars, providers, api_key, provider_instances, index, last_error,
                   delay, sleeps, call_result, trace, failure, result>>

\* tokio::time::sleep(delay) is over
SleepDone ==
    /\ cpc = "sleep"
    /\ sleeps' = Append(sleeps, delay)
    /\ delay' = NextDelay(delay)
    /\ cpc' = "request"
    /\ UNCHANGED <<detVars, parserVars, pipeVars, lockVars, cfgVars, providers, api_key, provider_instances, index, last_error,
                   retries, attempts, call_result, trace, failure, result>>

\* make_request answers Err and make_request_with_retry returns it: complete
\* records it and continues with the next provider
RequestFails ==
    /\ cpc = "request"
    /\ \E o \in Outcomes :
        /\ ~MakeRequest(o).ok
        /\ ~ShouldRetry(MakeRequest(o).e, retries)
        /\ attempts' = Append(attempts, AttemptKind(o))
        /\ call_result' = MakeRequest(o)
        /\ last_error' = RecordError(last_error,
                             ProviderFailedError(providers[index], MakeRequest(o).e))
        /\ failure' = [index |-> index,
                       msg |-> ProviderFailedError(providers[index], MakeRequest(o).e)]
    /\ trace' = Append(trace, [index |-> index, ev |-> "call_failed"])
    /\ index' = NextIndex(index)
    /\ cpc' = "loop"
    /\ UNCHANGED <<detVars, parserVars, pipeVars, lockVars, cfgVars, providers, api_key, provider_instances, retries, delay,
                   sleeps, result>>

\* the loop is over: every provider failed
ChainExhausted ==
    /\ cpc = "loop"
    /\ index > Len(providers)
    /\ result' = Err(FinalError(last_error))
    /\ cpc' = "done"
    /\ UNCHANGED <<detVars, parserVars, pipeVars, lockVars, cfgVars, providers, api_key, provider_instances, index, last_error,
                   retries, delay, attempts, sleeps, call_result, trace, failure>>

\* ProviderChain::parse_model: split_once('/'), else the configured default
ParseModel(model_str, default) ==
    IF \E i \in 1..Len(model_str) : model_str[i] = "/"
    THEN The({ <<SubSeq(model_str, 1, i - 1), SubSeq(model_str, i + 1, Len(model_str))>>
               : i \in {k \in 1..Len(model_str) :
                           /\ model_str[k] = "/"
                           /\ \A j \in 1..(k - 1) : model_str[j] # "/"} })
    ELSE <<default, model_str>>

\* parse_model called on the chain with one model string
CallParseModel ==
    /\ cpc # "off"
    /\ model_call = NoneV
    /\ \E model_str \in {<<"g","p","t">>, <<"a","/","g","p","t">>, <<"a","/","b","/","c">>,
                          <<"/","g">>, <<"a","/">>, << >>} :
          model_call' = Some([model_str |-> model_str,
                              res |-> ParseModel(model_str, provider_config.default)])
    /\ UNCHANGED <<detVars, parserVars, pipeVars, lockVars, provider_config, providers, api_key,
                   provider_instances, cpc, index, last_error, retries, delay, attempts,
                   sleeps, call_result, trace, failure, result>>

\* no thread is in get_provider
LockIdle ==
    /\ mutex = NoneV
    /\ callers = << >>
    /\ constructed = << >>

ChainInit ==
    /\ \E d \in ProviderNames, f \in SeqsUpTo(ProviderNames, MaxFallback) :
          /\ provider_config = [default |-> d, fallback |-> f]
          /\ providers = ChainNew(d, f)
    /\ model_call = NoneV
    /\ api_key \in {"absent", "empty", "set"}
    /\ provider_instances = << >>
    /\ cpc = "loop"
    /\ index = 1
    /\ last_error = NoneV
    /\ retries = 0
    /\ delay = 0
    /\ attempts = << >>
    /\ sleeps = << >>
    /\ call_result = NoneV
    /\ trace = << >>
    /\ failure = NoneV
    /\ result = NoneV
    /\ LockIdle

ChainNext ==
    \/ ChainInitFails
    \/ ChainUnavailable
    \/ ChainCall
    \/ RequestSucceeds
    \/ RequestRetries
    \/ SleepDone
    \/ RequestFails
    \/ ChainExhausted
    \/ CallParseModel

ChainIdle ==
    /\ providers = << >>
    /\ provider_config = [default |-> OPENROUTER, fallback |-> << >>]
    /\ model_call = NoneV
    /\ api_key = "absent"
    /\ provider_instances = << >>
    /\ cpc = "off"
    /\ index = 1
    /\ last_error = NoneV
    /\ retries = 0
    /\ delay = 0
    /\ attempts = << >>
    /\ sleeps = << >>
    /\ call_result = NoneV
    /\ trace = << >>
    /\ failure = NoneV
    /\ result = NoneV
    /\ LockIdle

---------------------------------------------------------------------------
(* get_provider under concurrent complete calls on one ProviderChain: the
   MutexGuard taken on entry lives until the function returns *)

\* complete calls running at the same time
MaxThreads == 2

\* a thread that ignores the lock
CanLockAlways(m) == TRUE

\* Mutex::lock returns once no other thread holds the guard
CanLock(m) == m = NoneV

\* self.provider_instances.lock().unwrap()
GetProviderLock ==
    /\ \E t \in DOMAIN callers :
          /\ callers[t].pc = "lock"
          /\ CanLock(mutex)
          /\ mutex' = Some(t)
          /\ callers' = [callers EXCEPT ![t].pc = "check"]
    /\ UNCHANGED <<detVars, parserVars, pipeVars, cfgVars, providers, api_key, provider_instances,
                   cpc, index, last_error, retries, delay, attempts, sleeps,
                   call_result, trace, failure, result, constructed>>

\* the cache test: a hit returns the cached Arc and drops the guard
GetProviderLookup ==
    /\ \E t \in DOMAIN callers :
          /\ callers[t].pc = "check"
          /\ IF /\ callers[t].index <= Len(provider_instances)
                /\ provider_instances[callers[t].index].some
             THEN /\ callers' = [callers EXCEPT
                                   ![t].pc = "returned",
                                   ![t].res = Ok(provider_instances[callers[t].index].v)]
                  /\ mutex' = NoneV
             ELSE /\ callers' = [callers EXCEPT ![t].pc = "init"]
                  /\ UNCHANGED mutex
    /\ UNCHANGED <<detVars, parserVars, pipeVars, cfgVars, providers, api_key, provider_instances,
                   cpc, index, last_error, retries, delay, attempts, sleeps,
                   call_result, trace, failure, result, constructed>>

\* the miss: init_provider, then resize and store; the guard drops on either return
GetProviderInit ==
    /\ \E t \in DOMAIN callers :
          /\ callers[t].pc = "init"
          /\ mutex' = NoneV
          /\ IF ~InitProvider(providers[callers[t].index], api_key).ok
             THEN /\ callers' = [callers EXCEPT
                                   ![t].pc = "returned",
                                   ![t].res = InitProvider(providers[callers[t].index], api_key)]
                  /\ UNCHANGED <<provider_instances, constructed>>
             ELSE /\ constructed' = Append(constructed, callers[t].index)
                  /\ provider_instances' =
                        [ (IF Len(provider_instances) <= callers[t].index - 1
                           THEN provider_instances
                                \o [k \in 1..(callers[t].index - Len(provider_instances)) |-> NoneV]
                           ELSE provider_instances)
                          EXCEPT ![callers[t].index] =
                             Some([provider |-> InitProvider(providers[callers[t].index], api_key).v,
                                   arc |-> Len(constructed) + 1]) ]
                  /\ callers' = [callers EXCEPT
                                   ![t].pc = "returned",
                                   ![t].res = Ok([provider |-> InitProvider(providers[callers[t].index], api_key).v,
                                                  arc |-> Len(constructed) + 1])]
    /\ UNCHANGED <<detVars, parserVars, pipeVars, cfgVars, providers, api_key,
                   cpc, index, last_error, retries, delay, attempts, sleeps,
                   call_result, trace, failure, result>>

\* the loop of complete moves on to the next provider of the chain
CompleteContinue ==
    /\ \E t \in DOMAIN callers :
          /\ callers[t].pc = "returned"
          /\ callers[t].index < Len(providers)
          /\ callers' = [callers EXCEPT ![t].pc = "lock",
                                        ![t].index = callers[t].index + 1]
    /\ UNCHANGED <<detVars, parserVars, pipeVars, cfgVars, providers, api_key, provider_instances,
                   cpc, index, last_error, retries, delay, attempts, sleeps,
                   call_result, trace, failure, result, mutex, constructed>>

\* a fresh chain shared by the threads, each entering its first get_provider
CacheInit ==
    /\ \E d \in ProviderNames, f \in SeqsUpTo(ProviderNames, MaxFallback) :
          /\ provider_config = [default |-> d, fallback |-> f]
          /\ providers = ChainNew(d, f)
    /\ model_call = NoneV
    /\ api_key \in {"absent", "empty", "set"}
    /\ provider_instances = << >>
    /\ cpc = "off"
    /\ index = 1
    /\ last_error = NoneV
    /\ retries = 0
    /\ delay = 0
    /\ attempts = << >>
    /\ sleeps = << >>
    /\ call_result = NoneV
    /\ trace = << >>
    /\ failure = NoneV
    /\ result = NoneV
    /\ mutex = NoneV
    /\ callers = [t \in 1..MaxThreads |-> [pc |-> "lock", index |-> 1, res |-> NoneV]]
    /\ constructed = << >>

---------------------------------------------------------------------------
(* The orchestrator: main.rs, with output/, signals/, error/ and the two
   prompts of safety/ *)

RECURSIVE TrimStart(_)
TrimStart(s) ==
    IF s # << >> /\ Head(s) \in WhitespaceChars THEN TrimStart(Tail(s)) ELSE s

RECURSIVE TrimEnd(_)
TrimEnd(s) ==
    IF s # << >> /\ s[Len(s)] \in WhitespaceChars
    THEN TrimEnd(SubSeq(s, 1, Len(s) - 1))
    ELSE s

\* str::trim
Trim(s) == TrimEnd(TrimStart(s))

\* char::to_uppercase on the characters a line holds here
ToUpper(c) == IF c \in LowerSet THEN UpperLetters[LetterIndex(c)] ELSE c

DigitValue(ch) == CHOOSE d \in 0..9 : DigitChars[d + 1] = ch

\* the first "(ddd)" of the message, as a number
ExtractStatusCode(error_msg) ==
    LET hits == {i \in 1..(Len(error_msg) - 4) :
                    /\ error_msg[i] = "("
                    /\ \A j \in 1..3 : error_msg[i + j] \in DigitSet
                    /\ error_msg[i + 4] = ")"}
    IN  IF hits = {} THEN NoneV
        ELSE LET i == CHOOSE h \in hits : \A g \in hits : h <= g
             IN  Some(100 * DigitValue(error_msg[i + 1])
                      + 10 * DigitValue(error_msg[i + 2])
                      + DigitValue(error_msg[i + 3]))

\* ClaiError and its constructors
General(msg) == [kind |-> "General", msg |-> msg]
Safety(msg) == [kind |-> "Safety", msg |-> msg]
API(source, status_code) ==
    [kind |-> "API", source |-> source, status_code |-> status_code]

\* an exit code that does not tell a Safety error from a general one
ExitCodeOfKindFlat(kind) ==
    CASE kind = "General" -> 1
      [] kind = "Usage"   -> 2
      [] kind = "Config"  -> 3
      [] kind = "API"     -> 4
      [] kind = "Safety"  -> 1

\* ClaiError::exit_code
ExitCodeOfKind(kind) ==
    CASE kind = "General" -> 1
      [] kind = "Usage"   -> 2
      [] kind = "Config"  -> 3
      [] kind = "API"     -> 4
      [] kind = "Safety"  -> 5

ExitSuccess == 0
ExitInterrupted == 130

\* should_prompt with force off: the --force flag is not looked at
ShouldPromptIgnoresForce(force, confirm_dangerous, t) ==
    t.stdin /\ t.stdout /\ confirm_dangerous

\* should_prompt(cli, config)
ShouldPrompt(force, confirm_dangerous, t) ==
    t.stdin /\ t.stdout /\ confirm_dangerous /\ ~force

\* signals::is_interactive
IsInteractive(t) == t.stdin /\ t.stdout

\* print_command: what reaches stdout and what it returns; flush_ok is
\* whether the flush of a piped stdout succeeds
PrintCommand(command, t, flush_ok) ==
    IF ~t.stdout
    THEN IF flush_ok THEN [out |-> Trim(command), ok |-> TRUE]
         ELSE [out |-> << >>, ok |-> FALSE]
    ELSE [out |-> Trim(command) \o <<"\n">>, ok |-> TRUE]

\* a prompt that takes the first character of the line, blank or not
DecisionOfUntrimmed(text) ==
    IF text = << >> THEN Ok("Abort")
    ELSE CASE ToUpper(Head(text)) = "E" -> Ok("Execute")
           [] ToUpper(Head(text)) = "C" -> Ok("Copy")
           [] ToUpper(Head(text)) = "A" -> Ok("Abort")
           [] OTHER -> Err([kind |-> "InvalidInput", input |-> text])

\* the match on the trimmed line in handle_dangerous_confirmation
DecisionOf(text) ==
    LET trimmed == Trim(text)
    IN  IF trimmed = << >> THEN Ok("Abort")
        ELSE CASE ToUpper(Head(trimmed)) = "E" -> Ok("Execute")
               [] ToUpper(Head(trimmed)) = "C" -> Ok("Copy")
               [] ToUpper(Head(trimmed)) = "A" -> Ok("Abort")
               [] OTHER -> Err([kind |-> "InvalidInput", input |-> trimmed])

\* handle_dangerous_confirmation, given what the terminal did
HandleDangerousConfirmation(read) ==
    CASE read.kind = "flush_error" -> Err([kind |-> "IoError"])
      [] read.kind = "eof"         -> Ok("Abort")
      [] read.kind = "line"        -> DecisionOf(read.text)
      [] read.kind = "io_error"    -> Err([kind |-> "IoError"])

\* the arms of handle_cli's match on the confirmation: whether the command
\* is printed, and the error returned otherwise
AfterConfirmation(d) ==
    IF d.ok /\ d.v \in {"Execute", "Copy"}
    THEN [print |-> TRUE, err |-> NoneV]
    ELSE IF d.ok
         THEN [print |-> FALSE, err |-> Some(Safety("Command rejected by user"))]
         ELSE [print |-> FALSE,
               err |-> Some(Safety("Error during confirmation. Command rejected."))]

\* Tab on the last candidate stays there
NextSelectedClamped(idx, total) == IF idx + 1 < total THEN idx + 1 ELSE idx

\* selected_index = (selected_index + 1) % total
NextSelected(idx, total) == (idx + 1) % total

IsPress(ev) == ev.type = "key" /\ ev.kind = "Press"
IsCtrlC(ev) == IsPress(ev) /\ ev.ctrl /\ ev.code = "Char_c"
IsTab(ev) == IsPress(ev) /\ ~IsCtrlC(ev) /\ ev.code = "Tab"
IsEnter(ev) == IsPress(ev) /\ ~IsCtrlC(ev) /\ ev.code = "Enter"
IsEsc(ev) == IsPress(ev) /\ ~IsCtrlC(ev) /\ ev.code = "Esc"
IsIgnored(ev) ==
    /\ ev.type # "error"
    /\ ~IsCtrlC(ev) /\ ~IsTab(ev) /\ ~IsEnter(ev) /\ ~IsEsc(ev)

\* the start of prompt_command_action, up to the loop; env says whether the
\* flush of stderr and enable_raw_mode succeed
PromptStart(commands, t, env) ==
    IF commands = << >>
    THEN [entered |-> FALSE, res |-> Err([kind |-> "NoCommands"])]
    ELSE IF ~t.stderr
    THEN [entered |-> FALSE,
          res |-> Ok([action |-> "Output", command |-> commands[1]])]
    ELSE IF env \in {"flush_error", "raw_error"}
    THEN [entered |-> FALSE, res |-> Err([kind |-> "IoError"])]
    ELSE [entered |-> TRUE, res |-> NoneV]

\* a match that runs what the prompt returned for output
AfterSelectionRunsOutput(res, first_command) ==
    IF ~res.ok THEN [do |-> "print", command |-> first_command]
    ELSE CASE res.v.action = "Execute" -> [do |-> "execute", command |-> res.v.command]
           [] res.v.action = "Output"  -> [do |-> "execute", command |-> res.v.command]
           [] res.v.action = "Abort"   -> [do |-> "abort", command |-> << >>]

\* the arms of handle_cli's match on prompt_command_action
AfterSelection(res, first_command) ==
    IF ~res.ok THEN [do |-> "print", command |-> first_command]
    ELSE CASE res.v.action = "Execute" -> [do |-> "execute", command |-> res.v.command]
           [] res.v.action = "Output"  -> [do |-> "print", command |-> res.v.command]
           [] res.v.action = "Abort"   -> [do |-> "abort", command |-> << >>]

---------------------------------------------------------------------------
(* The response parser: ai/prompt.rs, with serde_json::from_str on the two
   shapes it is asked for *)

StartsWithAt(s, i, lit) ==
    /\ i + Len(lit) - 1 <= Len(s)
    /\ \A k \in 1..Len(lit) : s[i + k - 1] = lit[k]

\* str::find and str::rfind of one pattern: 0 for None
Find(s, lit) ==
    IF \E i \in 1..Len(s) : StartsWithAt(s, i, lit)
    THEN CHOOSE i \in 1..Len(s) :
            StartsWithAt(s, i, lit) /\ \A j \in 1..(i - 1) : ~StartsWithAt(s, j, lit)
    ELSE 0

RFind(s, lit) ==
    IF \E i \in 1..Len(s) : StartsWithAt(s, i, lit)
    THEN CHOOSE i \in 1..Len(s) :
            StartsWithAt(s, i, lit) /\ \A j \in (i + 1)..Len(s) : ~StartsWithAt(s, j, lit)
    ELSE 0

\* the three grave accents U+0060 of a markdown fence; a TLA+ string cannot
\* hold the character, "TICK" stands for it
Fence == <<"TICK", "TICK", "TICK">>

\* serde_json: the whitespace between tokens
RECURSIVE SkipWs(_, _)
SkipWs(s, i) ==
    IF i <= Len(s) /\ s[i] \in WhitespaceChars THEN SkipWs(s, i + 1) ELSE i

\* a parsed JSON value, and a failed parse
JsonValue(t, v, n) == [ok |-> TRUE, t |-> t, v |-> v, n |-> n]
JsonError == [ok |-> FALSE, t |-> "error", v |-> << >>, n |-> 0]

\* a JSON string from the character behind its opening quote
RECURSIVE ParseStr(_, _, _)
ParseStr(s, i, acc) ==
    IF i > Len(s) THEN JsonError
    ELSE IF s[i] = "\"" THEN JsonValue("str", acc, i + 1)
    ELSE IF s[i] = "\\"
    THEN IF i + 1 <= Len(s) /\ s[i + 1] \in {"\"", "\\", "/", "n", "t"}
         THEN ParseStr(s, i + 2, Append(acc, CASE s[i + 1] = "n" -> "\n"
                                            [] s[i + 1] = "t" -> "\t"
                                            [] OTHER -> s[i + 1]))
         ELSE JsonError
    ELSE IF s[i] \in {"\n", "\t", "\r"} THEN JsonError
    ELSE ParseStr(s, i + 1, Append(acc, s[i]))

RECURSIVE ParseDigits(_, _)
ParseDigits(s, i) ==
    IF i <= Len(s) /\ s[i] \in DigitSet THEN ParseDigits(s, i + 1) ELSE i

RECURSIVE ParseValue(_, _)
RECURSIVE ParseItems(_, _, _)
RECURSIVE ParseMembers(_, _, _)

\* the elements of an array from position i, acc the ones already read
ParseItems(s, i, acc) ==
    IF i > Len(s) THEN JsonError
    ELSE IF s[i] = "]" /\ acc = << >> THEN JsonValue("arr", acc, i + 1)
    ELSE The({ IF ~e.ok \/ SkipWs(s, e.n) > Len(s) THEN JsonError
               ELSE IF s[SkipWs(s, e.n)] = "]"
               THEN JsonValue("arr", Append(acc, e), SkipWs(s, e.n) + 1)
               ELSE IF s[SkipWs(s, e.n)] = "," /\ SkipWs(s, SkipWs(s, e.n) + 1) <= Len(s)
                       /\ s[SkipWs(s, SkipWs(s, e.n) + 1)] # "]"
               THEN ParseItems(s, SkipWs(s, SkipWs(s, e.n) + 1), Append(acc, e))
               ELSE JsonError
               : e \in {ParseValue(s, i)} })

\* the members of an object from position i, acc the ones already read
ParseMembers(s, i, acc) ==
    IF i > Len(s) THEN JsonError
    ELSE IF s[i] = "}" /\ acc = << >> THEN JsonValue("obj", acc, i + 1)
    ELSE IF s[i] # "\"" THEN JsonError
    ELSE The({ IF ~k.ok \/ SkipWs(s, k.n) > Len(s) \/ s[SkipWs(s, k.n)] # ":"
               THEN JsonError
               ELSE The({ IF ~e.ok \/ SkipWs(s, e.n) > Len(s) THEN JsonError
                          ELSE IF s[SkipWs(s, e.n)] = "}"
                          THEN JsonValue("obj", Append(acc, [key |-> k.v, val |-> e]),
                                         SkipWs(s, e.n) + 1)
                          ELSE IF s[SkipWs(s, e.n)] = ","
                          THEN ParseMembers(s, SkipWs(s, SkipWs(s, e.n) + 1),
                                            Append(acc, [key |-> k.v, val |-> e]))
                          ELSE JsonError
                          : e \in {ParseValue(s, SkipWs(s, SkipWs(s, k.n) + 1))} })
               : k \in {ParseStr(s, i + 1, << >>)} })

\* one JSON value from position i
ParseValue(s, i) ==
    IF i > Len(s) THEN JsonError
    ELSE CASE s[i] = "\"" -> ParseStr(s, i + 1, << >>)
           [] s[i] = "["  -> ParseItems(s, SkipWs(s, i + 1), << >>)
           [] s[i] = "{"  -> ParseMembers(s, SkipWs(s, i + 1), << >>)
           [] s[i] \in DigitSet -> JsonValue("num", << >>, ParseDigits(s, i))
           [] StartsWithAt(s, i, <<"n","u","l","l">>) -> JsonValue("null", << >>, i + 4)
           [] OTHER -> JsonError

\* serde_json::from_str: one value and nothing but whitespace behind it
FromStr(s) ==
    The({ IF v.ok /\ SkipWs(s, v.n) > Len(s) THEN v ELSE JsonError
          : v \in {ParseValue(s, SkipWs(s, 1))} })

\* Vec<String> out of a value
IsStrings(v) == v.ok /\ v.t = "arr" /\ \A k \in 1..Len(v.v) : v.v[k].t = "str"
Strings(v) == [k \in 1..Len(v.v) |-> v.v[k].v]

CommandsKey == <<"c","o","m","m","a","n","d","s">>

\* what stands for the text of a serde_json error
JsonErrorText == <<"j","s","o","n"," ","e","r","r","o","r">>

\* serde_json::from_str::<CommandsResponse>: an object with one "commands"
\* member that is an array of strings, other members ignored; or, as serde
\* reads a struct from a sequence too, an array holding that one array
FromStrCommandsResponse(s) ==
    The({ IF ~v.ok THEN Err(JsonErrorText)
          ELSE IF v.t = "obj"
          THEN IF /\ Cardinality({k \in 1..Len(v.v) : v.v[k].key = CommandsKey}) = 1
                  /\ \A k \in 1..Len(v.v) :
                        v.v[k].key = CommandsKey => IsStrings(v.v[k].val)
               THEN Ok(Strings(v.v[CHOOSE k \in 1..Len(v.v) : v.v[k].key = CommandsKey].val))
               ELSE Err(JsonErrorText)
          ELSE IF v.t = "arr" /\ Len(v.v) = 1 /\ IsStrings(v.v[1])
          THEN Ok(Strings(v.v[1]))
          ELSE Err(JsonErrorText)
          : v \in {FromStr(s)} })

\* serde_json::from_str::<Vec<String>>
FromStrVecString(s) ==
    The({ IF IsStrings(v) THEN Ok(Strings(v)) ELSE Err(JsonErrorText)
          : v \in {FromStr(s)} })

\* .map(|c| c.trim().to_string()).filter(|c| !c.is_empty()).collect()
RECURSIVE TrimAndFilter(_)
TrimAndFilter(commands) ==
    IF commands = << >> THEN << >>
    ELSE (IF Trim(Head(commands)) = << >> THEN << >> ELSE <<Trim(Head(commands))>>)
         \o TrimAndFilter(Tail(commands))

\* COMMAND_EXTRACTION_REGEX, "\s*\n" behind the label at q: the position of
\* the last newline of the whitespace there, 0 when it holds none
HeaderNewline(s, q) ==
    IF \E j \in q..(SkipWs(s, q) - 1) : s[j] = "\n"
    THEN CHOOSE j \in q..(SkipWs(s, q) - 1) :
            s[j] = "\n" /\ \A k \in (j + 1)..(SkipWs(s, q) - 1) : s[k] # "\n"
    ELSE 0

\* COMMAND_EXTRACTION_REGEX, fence, optional label bash, sh or shell, "\s*\n", at p: the position
\* of the newline that ends the match, 0 for no match
FenceHeaderEnd(s, p) ==
    IF ~StartsWithAt(s, p, Fence) THEN 0
    ELSE IF StartsWithAt(s, p + 3, <<"b","a","s","h">>) /\ HeaderNewline(s, p + 7) # 0
    THEN HeaderNewline(s, p + 7)
    ELSE IF StartsWithAt(s, p + 3, <<"s","h">>) /\ HeaderNewline(s, p + 5) # 0
    THEN HeaderNewline(s, p + 5)
    ELSE IF StartsWithAt(s, p + 3, <<"s","h","e","l","l">>) /\ HeaderNewline(s, p + 8) # 0
    THEN HeaderNewline(s, p + 8)
    ELSE HeaderNewline(s, p + 3)

\* the first fence at or behind position i, 0 for none
FenceFrom(s, i) ==
    IF \E c \in i..Len(s) : StartsWithAt(s, c, Fence)
    THEN CHOOSE c \in i..Len(s) :
            StartsWithAt(s, c, Fence) /\ \A d \in i..(c - 1) : ~StartsWithAt(s, d, Fence)
    ELSE 0

\* COMMAND_EXTRACTION_REGEX.captures(response): group 1 of the leftmost match
Captures(s) ==
    IF \E p \in 1..Len(s) :
          FenceHeaderEnd(s, p) # 0 /\ FenceFrom(s, FenceHeaderEnd(s, p) + 1) # 0
    THEN The({ The({ Some(SubSeq(s, j + 1,
                                 IF c - 1 > j /\ s[c - 1] = "\n" THEN c - 2 ELSE c - 1))
                     : c \in {FenceFrom(s, j + 1)} })
               : j \in {FenceHeaderEnd(s,
                          CHOOSE p \in 1..Len(s) :
                            /\ FenceHeaderEnd(s, p) # 0
                            /\ FenceFrom(s, FenceHeaderEnd(s, p) + 1) # 0
                            /\ \A q \in 1..(p - 1) :
                                  \/ FenceHeaderEnd(s, q) = 0
                                  \/ FenceFrom(s, FenceHeaderEnd(s, q) + 1) = 0)} })
    ELSE NoneV

\* extract_command(response)
ExtractCommand(response) ==
    The({ IF cap.some THEN Trim(cap.v) ELSE Trim(response)
          : cap \in {Captures(response)} })

\* extract_commands: response with its surrounding markdown fence removed
StripFence(response) ==
    IF StartsWithAt(response, 1, Fence)
    THEN The({ Trim(IF Len(w) >= 3 /\ StartsWithAt(w, Len(w) - 2, Fence)
                    THEN SubSeq(w, 1, Len(w) - 3) ELSE w)
               : w \in {IF StartsWithAt(response, 1, Fence \o <<"j","s","o","n">>)
                        THEN SubSeq(response, 8, Len(response))
                        ELSE SubSeq(response, 4, Len(response))} })
    ELSE response

\* extract_commands, the last fallback: the whole response as one command
SingleFallback(response, e) ==
    The({ IF single_cmd # << >> THEN Ok(<<single_cmd>>)
          ELSE Err(<<"F","a","i","l","e","d"," ","t","o"," ","p","a","r","s","e"," ","A","I"," ","r","e","s","p","o","n","s","e"," ","a","s"," ","J","S","O","N",":"," ">> \o e \o <<"."," ","R","e","s","p","o","n","s","e",":"," ">> \o response)
          : single_cmd \in {ExtractCommand(response)} })

\* a parser that goes from the array straight to the single command
ObjectFallbackSkipped(response, json_str, e) == SingleFallback(response, e)

\* extract_commands, the fallback on the text from the first '{' to the last
\* '}', and what follows it; the slice panics when the '}' is more than one
\* place before the '{': the result is then a record with a field panic
ObjectFallback(response, json_str, e) ==
    IF Find(json_str, <<"{">>) = 0 \/ RFind(json_str, <<"}">>) = 0
    THEN SingleFallback(response, e)
    ELSE IF Find(json_str, <<"{">>) > RFind(json_str, <<"}">>) + 1
    THEN [ok |-> FALSE, panic |-> TRUE]
    ELSE The({ IF parsed.ok /\ parsed.v # << >>
               THEN Ok(TrimAndFilter(parsed.v))
               ELSE SingleFallback(response, e)
               : parsed \in {FromStrCommandsResponse(
                               SubSeq(json_str, Find(json_str, <<"{">>),
                                      RFind(json_str, <<"}">>)))} })

\* extract_commands(response): json_str is the trimmed response without its
\* fence
ExtractCommands(response) ==
    The({ The({ IF parsed.ok
                THEN IF parsed.v = << >>
                     THEN Err(<<"A","I"," ","r","e","t","u","r","n","e","d"," ","e","m","p","t","y"," ","c","o","m","m","a","n","d","s"," ","a","r","r","a","y">>)
                     ELSE IF TrimAndFilter(parsed.v) = << >>
                     THEN Err(<<"A","l","l"," ","c","o","m","m","a","n","d","s"," ","i","n"," ","A","I"," ","r","e","s","p","o","n","s","e"," ","w","e","r","e"," ","e","m","p","t","y">>)
                     ELSE Ok(TrimAndFilter(parsed.v))
                ELSE The({ IF arr.ok
                           THEN IF arr.v = << >>
                                THEN Err(<<"A","I"," ","r","e","t","u","r","n","e","d"," ","e","m","p","t","y"," ","a","r","r","a","y">>)
                                ELSE Ok(TrimAndFilter(arr.v))
                           ELSE ObjectFallback(Trim(response), json_str, parsed.e)
                           : arr \in {FromStrVecString(json_str)} })
                : parsed \in {FromStrCommandsResponse(json_str)} })
          : json_str \in {StripFence(Trim(response))} })

---------------------------------------------------------------------------
(* replies a model can give, and the two generate functions of
   ai/handler.rs on them *)

MaxParsed == 2

\* the JSON text of a string without quotes and backslashes in it
Quote(c) == <<"\"">> \o c \o <<"\"">>

RECURSIVE JoinQuoted(_)
JoinQuoted(cmds) ==
    IF cmds = << >> THEN << >>
    ELSE IF Len(cmds) = 1 THEN Quote(cmds[1])
    ELSE Quote(cmds[1]) \o <<",", " ">> \o JoinQuoted(Tail(cmds))

\* the bare array, and the object the multi-command prompt asks for
ArrayReply(cmds) == <<"[">> \o JoinQuoted(cmds) \o <<"]">>
ObjectReply(cmds) ==
    <<"{">> \o Quote(CommandsKey) \o <<":", " ">> \o ArrayReply(cmds) \o <<"}">>

LabelBash == <<"b","a","s","h">>
\* a markdown fence around body
Fenced(label, body) == Fence \o label \o <<"\n">> \o body \o <<"\n">> \o Fence

\* a reply with words around body
Chatty(body) == <<"o","k",":","\n">> \o body \o <<"\n","b","y","e">>

Wrappings(body) ==
    {body, Fenced(<< >>, body), Fenced(LabelBash, body), Fenced(<<"j","s","o","n">>, body),
     Chatty(body), <<" ">> \o body \o <<"\n">>}

CmdPadded == <<" ","l","s"," ","-","l","a"," ">>

\* the command lists the replies are made of
ParserLists == SeqsUpTo({CmdLs, <<" ">>, CmdPadded}, MaxParsed)

\* replies that are unusual
OddReplies ==
    {<< >>, <<" ", "\n">>,
     Fenced(<<"p","y","t","h","o","n">>, CmdLs),
     Fenced(<<"p","y","t","h","o","n">>, CmdLs) \o <<"\n">> \o Fenced(LabelBash, CmdRmRoot),
     Chatty(Fenced(LabelBash, CmdRmRoot)),
     Fence \o LabelBash \o <<"\n">> \o CmdLs,
     <<"}", " ", "{">>,
     <<"[">> \o ArrayReply(<<CmdLs>>) \o <<"]">>,
     <<"{">> \o Quote(<<"a">>) \o <<":", "1", ",">> \o Quote(CommandsKey) \o <<":">>
        \o ArrayReply(<<CmdLs>>) \o <<"}">>,
     <<"e","c","h","o"," ","{","a","}">>}

\* extract_command is called on the reply
CallExtractCommand ==
    /\ response_content.some
    /\ parse_call = NoneV
    /\ parse_call' = [fn |-> "extract_command", res |-> ExtractCommand(response_content.v)]
    /\ UNCHANGED <<chainVars, detVars, pipeVars, response_content>>

\* extract_commands is called on the reply
CallExtractCommands ==
    /\ response_content.some
    /\ parse_call = NoneV
    /\ parse_call' = [fn |-> "extract_commands", res |-> ExtractCommands(response_content.v)]
    /\ UNCHANGED <<chainVars, detVars, pipeVars, response_content>>

\* the replies extract_command and extract_commands are called on
ParserInit ==
    /\ response_content \in
          {Some(r) : r \in
              UNION {Wrappings(ObjectReply(l)) \cup Wrappings(ArrayReply(l))
                     : l \in ParserLists}
              \cup UNION {Wrappings(c) : c \in {CmdLs, CmdRmRoot}}
              \cup OddReplies}
    /\ parse_call = NoneV

ParserIdle ==
    /\ response_content = NoneV
    /\ parse_call = NoneV

---------------------------------------------------------------------------
(* what the environment can hand the orchestrator *)

MaxOptions == 2
MaxCommands == 2
MaxLine == 2
MaxTabs == 3

TxtGetResponse ==
    <<"F","a","i","l","e","d"," ","t","o"," ","g","e","t"," ","r","e","s","p","o","n","s","e"," ","f","r","o","m"," ","A","I"," ","p","r","o","v","i","d","e","r">>

GenCommands == {CmdLs, CmdRmRoot}

\* Config::from_cli: let num_options = cli.num_options.clamp(1, 10)
MinNumOptions == 1
MaxNumOptions == 10
ClampNumOptions(n) ==
    IF n < MinNumOptions THEN MinNumOptions
    ELSE IF n > MaxNumOptions THEN MaxNumOptions ELSE n

\* what the model replies: to the single-command request, and to the request
\* for a JSON object of commands
PipeReplies(multi) ==
    IF multi
    THEN {ObjectReply(c) : c \in SeqsUpTo(GenCommands, MaxCommands) \ {<< >>}}
         \cup {ObjectReply([k \in 1..(MaxNumOptions + 1) |-> CmdLs]),
               ArrayReply(<<<<" ">>>>), << >>, <<"}", " ", "{">>}
    ELSE {CmdLs, Fenced(LabelBash, CmdRmRoot), << >>, <<" ">>}

\* generate_command, from the call of the chain on; the chain's error gets
\* a context: the text of the new error is the context alone, the chain's
\* error is its source
GenerateCommand(chain_result) ==
    IF ~chain_result.ok
    THEN [ok |-> FALSE, e |-> TxtGetResponse, source |-> chain_result.e]
    ELSE Ok(ExtractCommand(chain_result.v))

\* generate_commands, from the call of the chain on
GenerateCommands(chain_result) ==
    IF ~chain_result.ok
    THEN [ok |-> FALSE, e |-> TxtGetResponse, source |-> chain_result.e]
    ELSE The({ IF "panic" \in DOMAIN r THEN r
               ELSE IF ~r.ok
               THEN Err(<<"F","a","i","l","e","d"," ","t","o"," ","p","a","r","s","e"," ","A","I"," ","r","e","s","p","o","n","s","e",":"," ">> \o r.e)
               ELSE IF r.v = << >>
               THEN Err(<<"A","I"," ","r","e","t","u","r","n","e","d"," ","n","o"," ","c","o","m","m","a","n","d","s">>)
               ELSE r
               : r \in {ExtractCommands(chain_result.v)} })

\* handle_cli: commands_result
CommandsResult(multi, chain_result) ==
    IF multi THEN GenerateCommands(chain_result)
    ELSE The({ IF r.ok THEN Ok(<<r.v>>) ELSE r
               : r \in {GenerateCommand(chain_result)} })

\* what the danger prompt can meet on the terminal: the end of the input,
\* an error, or a line of a few characters with or without its newline
DangerReads ==
    {[kind |-> "eof"], [kind |-> "io_error"], [kind |-> "flush_error"]}
    \cup (UNION {{[kind |-> "line", text |-> t \o nl] : nl \in {<<"\n">>, << >>}}
                 : t \in SeqsUpTo({"e", "E", "C", "a", "x", " "}, MaxLine)}
          \ {[kind |-> "line", text |-> << >>]})

\* what event::read can return
Events ==
    [type : {"key"}, code : {"Tab", "Enter", "Esc", "Char_c", "Char_x"},
     ctrl : BOOLEAN, kind : {"Press", "Release"}]
    \cup {[type |-> "resize"], [type |-> "error"]}

---------------------------------------------------------------------------
(* main, run_main and handle_cli, one step at a time *)

inputVars == <<config, file_config, tty>>
promptVars == <<danger_read, decision, selected_index, tabs, last_event,
                raw_mode, restore, action>>

Unit == "unit"
InterruptedError == General("Interrupted by signal")
WriteError == General("Failed to write command to stdout")

Commands == commands_result.v
FirstCommand == IF Commands = << >> THEN << >> ELSE Commands[1]

\* is_dangerous_command(&first_command, &file_config)
Danger ==
    IsDangerousCommand(FirstCommand, file_config.dangerous_patterns,
                       DANGEROUS_REGEXES)

IsInteractiveMode == config.interactive /\ IsInteractive(tty)

ShouldPromptUser ==
    ShouldPrompt(config.force, file_config.confirm_dangerous, tty)

\* print_command(command) followed by "?; Ok(())"
Emit(command) ==
    \E flush_ok \in BOOLEAN :
        LET p == PrintCommand(command, tty, flush_ok)
        IN  /\ stdout' = stdout \o p.out
            /\ outcome' = IF p.ok THEN Ok(Unit) ELSE Err(WriteError)
            /\ ppc' = "returned"

\* the detector has been called on the first command
DetectorCalled ==
    /\ DANGEROUS_REGEXES' = Danger.cache
    /\ det_call' = [fn |-> "is_dangerous_command", command |-> FirstCommand,
                    dangerous_patterns |-> file_config.dangerous_patterns,
                    compiled |-> ~DANGEROUS_REGEXES.some,
                    res |-> Danger.res]
    /\ UNCHANGED pattern_call

\* a signal handler runs
Signal ==
    /\ ppc # "exited"
    /\ interrupted' = TRUE
    /\ UNCHANGED <<chainVars, parserVars, inputVars, promptVars, detVars, ppc, commands_result,
                   branch, stdout, executed, child, outcome, exit_code>>

\* main's first check of the flag
MainStart ==
    /\ ppc = "main"
    /\ IF interrupted
       THEN ppc' = "exited" /\ exit_code' = Some(ExitInterrupted)
       ELSE ppc' = "run_main" /\ UNCHANGED exit_code
    /\ UNCHANGED <<chainVars, parserVars, inputVars, promptVars, detVars, interrupted,
                   commands_result, branch, stdout, executed, child, outcome>>

\* run_main up to the call of handle_cli
RunMain ==
    /\ ppc = "run_main"
    /\ \E pre \in {"ok", "usage", "offline", "config"} :
        CASE pre = "ok" -> ppc' = "start" /\ UNCHANGED outcome
          [] pre = "usage" ->
                ppc' = "returned" /\ outcome' = Err([kind |-> "Usage"])
          [] pre = "offline" ->
                /\ ppc' = "returned"
                /\ outcome' = Err(General("Offline mode is not yet supported"))
          [] pre = "config" ->
                ppc' = "returned" /\ outcome' = Err([kind |-> "Config"])
    /\ UNCHANGED <<chainVars, parserVars, inputVars, promptVars, detVars, interrupted,
                   commands_result, branch, stdout, executed, child, exit_code>>

\* handle_cli: the check before processing
CheckBeforeProcessing ==
    /\ ppc = "start"
    /\ IF interrupted
       THEN ppc' = "returned" /\ outcome' = Err(InterruptedError)
       ELSE ppc' = "logged" /\ UNCHANGED outcome
    /\ UNCHANGED <<chainVars, parserVars, inputVars, promptVars, detVars, interrupted,
                   commands_result, branch, stdout, executed, child, exit_code>>

\* a handle_cli that goes on to generation without looking at the flag
CheckAfterLoggingFlagIgnored ==
    /\ ppc = "logged"
    /\ ppc' = "generating"
    /\ UNCHANGED <<chainVars, parserVars, inputVars, promptVars, detVars, interrupted,
                   commands_result, branch, stdout, executed, child, outcome, exit_code>>

\* handle_cli: the check after logging; generation starts
CheckAfterLogging ==
    /\ ppc = "logged"
    /\ IF interrupted
       THEN ppc' = "returned" /\ outcome' = Err(InterruptedError)
       ELSE ppc' = "generating" /\ UNCHANGED outcome
    /\ UNCHANGED <<chainVars, parserVars, inputVars, promptVars, detVars, interrupted,
                   commands_result, branch, stdout, executed, child, exit_code>>

\* handle_cli: multi-command generation is used
MultiMode == config.num_options > 1 /\ config.interactive

\* the chain returns the model's reply, the error of the provider's failed
\* request, or the error of a provider that could not be initialized;
\* generate_commands or generate_command returns, or the thread panics in
\* it and the process ends with the code of a Rust panic
Generate ==
    /\ ppc = "generating"
    /\ \E chain_result \in
            {Ok(r) : r \in PipeReplies(MultiMode)}
            \cup {Err(ProviderFailedError(OPENROUTER, MakeRequest(o).e))
                  : o \in {x \in Outcomes : x.kind # "ok"}}
            \cup {InitProvider(OPENROUTER, "absent")} :
        /\ response_content' =
              (IF chain_result.ok THEN Some(chain_result.v) ELSE NoneV)
        /\ IF "panic" \in DOMAIN CommandsResult(MultiMode, chain_result)
           THEN /\ ppc' = "exited"
                /\ exit_code' = Some(101)
                /\ UNCHANGED commands_result
           ELSE /\ commands_result' = CommandsResult(MultiMode, chain_result)
                /\ ppc' = "generated"
                /\ UNCHANGED exit_code
    /\ UNCHANGED <<chainVars, parse_call, inputVars, promptVars, detVars, interrupted,
                   branch, stdout, executed, child, outcome>>

\* generation failed: the error becomes ClaiError::API
GenerationFailed ==
    /\ ppc = "generated"
    /\ ~commands_result.ok
    /\ outcome' = Err(API(commands_result.e, ExtractStatusCode(commands_result.e)))
    /\ ppc' = "returned"
    /\ UNCHANGED <<chainVars, parserVars, inputVars, promptVars, detVars, interrupted,
                   commands_result, branch, stdout, executed, child, exit_code>>

\* the check before output finds the flag set
InterruptedBeforeOutput ==
    /\ ppc = "generated"
    /\ commands_result.ok
    /\ interrupted
    /\ outcome' = Err(InterruptedError)
    /\ ppc' = "returned"
    /\ UNCHANGED <<chainVars, parserVars, inputVars, promptVars, detVars, interrupted,
                   commands_result, branch, stdout, executed, child, exit_code>>

\* what the dry-run loop has written after the first n commands
RECURSIVE DryRunOut(_, _, _)
DryRunOut(commands, t, n) ==
    IF n = 0 THEN << >>
    ELSE DryRunOut(commands, t, n - 1)
         \o (IF n > 1 THEN <<"\n">> ELSE << >>)
         \o PrintCommand(commands[n], t, TRUE).out

\* --dry-run: every command is printed, no safety check; failed_at is the
\* command whose flush fails, 0 for none
DryRun ==
    /\ ppc = "generated"
    /\ commands_result.ok
    /\ ~interrupted
    /\ config.dry_run
    /\ \E failed_at \in 0..Len(Commands) :
        /\ failed_at > 0 => ~tty.stdout
        /\ IF failed_at = 0
           THEN /\ stdout' = stdout \o DryRunOut(Commands, tty, Len(Commands))
                              \o (IF Commands # << >> THEN <<"\n">> ELSE << >>)
                /\ outcome' = Ok(Unit)
           ELSE /\ stdout' = stdout \o DryRunOut(Commands, tty, failed_at - 1)
                              \o (IF failed_at > 1 THEN <<"\n">> ELSE << >>)
                /\ outcome' = Err(WriteError)
    /\ branch' = "dry_run"
    /\ ppc' = "returned"
    /\ UNCHANGED <<chainVars, parserVars, inputVars, promptVars, detVars, interrupted,
                   commands_result, executed, child, exit_code>>

\* a pipeline whose safety flow does not look at --dry-run
AtBranchDryRunIgnored ==
    /\ ppc = "generated"
    /\ commands_result.ok
    /\ ~interrupted

AtBranch ==
    /\ ppc = "generated"
    /\ commands_result.ok
    /\ ~interrupted
    /\ ~config.dry_run

\* dangerous and should_prompt: handle_dangerous_confirmation is entered
EnterDangerPrompt ==
    /\ AtBranch
    /\ Danger.res
    /\ ShouldPromptUser
    /\ DetectorCalled
    /\ branch' = "danger_prompt"
    /\ ppc' = "danger_prompt"
    /\ UNCHANGED <<chainVars, parserVars, inputVars, promptVars, interrupted, commands_result,
                   stdout, executed, child, outcome, exit_code>>

\* handle_dangerous_confirmation returns and handle_cli acts on it
DangerPromptRead ==
    /\ ppc = "danger_prompt"
    /\ \E read \in DangerReads :
        LET d == HandleDangerousConfirmation(read)
            a == AfterConfirmation(d)
        IN  /\ danger_read' = Some(read)
            /\ decision' = d
            /\ IF a.print
               THEN Emit(FirstCommand)
               ELSE /\ outcome' = Err(a.err.v)
                    /\ ppc' = "returned"
                    /\ UNCHANGED stdout
    /\ UNCHANGED <<chainVars, parserVars, inputVars, detVars, selected_index, tabs, last_event,
                   raw_mode, restore, action, interrupted, commands_result, branch,
                   executed, child, exit_code>>

\* dangerous without should_prompt: printed as it is
EmitDangerous ==
    /\ AtBranch
    /\ Danger.res
    /\ ~ShouldPromptUser
    /\ DetectorCalled
    /\ branch' = "emit_dangerous"
    /\ Emit(FirstCommand)
    /\ UNCHANGED <<chainVars, parserVars, inputVars, promptVars, interrupted, commands_result,
                   executed, child, exit_code>>

\* handle_cli acts on what prompt_command_action returned
FinishSelection(res) ==
    LET a == AfterSelection(res, FirstCommand)
    IN  /\ action' = res
        /\ CASE a.do = "execute" ->
                    ppc' = "executing" /\ UNCHANGED <<stdout, outcome>>
             [] a.do = "print" -> Emit(a.command)
             [] a.do = "abort" ->
                    /\ outcome' = Err(Safety("Command rejected by user"))
                    /\ ppc' = "returned"
                    /\ UNCHANGED stdout

\* safe and interactive, but prompt_command_action returns before its loop
SelectionPromptUnavailable ==
    /\ AtBranch
    /\ ~Danger.res
    /\ IsInteractiveMode
    /\ DetectorCalled
    /\ branch' = "selection_prompt"
    /\ \E env \in {"ok", "flush_error", "raw_error"} :
        /\ ~PromptStart(Commands, tty, env).entered
        /\ FinishSelection(PromptStart(Commands, tty, env).res)
    /\ UNCHANGED <<chainVars, parserVars, inputVars, danger_read, decision, selected_index, tabs,
                   last_event, raw_mode, restore, interrupted, commands_result,
                   executed, child, exit_code>>

\* safe and interactive: the prompt is shown and raw mode is on
SelectionPromptEntered ==
    /\ AtBranch
    /\ ~Danger.res
    /\ IsInteractiveMode
    /\ DetectorCalled
    /\ PromptStart(Commands, tty, "ok").entered
    /\ branch' = "selection_prompt"
    /\ selected_index' = 0
    /\ raw_mode' = TRUE
    /\ ppc' = "selection_prompt"
    /\ UNCHANGED <<chainVars, parserVars, inputVars, danger_read, decision, tabs, last_event,
                   restore, action,
                   interrupted, commands_result, stdout, executed, child, outcome,
                   exit_code>>

\* safe and not interactive: printed
DirectEmit ==
    /\ AtBranch
    /\ ~Danger.res
    /\ ~IsInteractiveMode
    /\ DetectorCalled
    /\ branch' = "emit"
    /\ Emit(FirstCommand)
    /\ UNCHANGED <<chainVars, parserVars, inputVars, promptVars, interrupted, commands_result,
                   executed, child, exit_code>>

InPrompt == ppc = "selection_prompt"

\* a loop whose read error is returned with "?", before disable_raw_mode
RestoreSkippedOnError(res, disabled) ==
    IF ~res.ok THEN "none" ELSE IF disabled THEN "ok" ELSE "failed"

\* behind the loop of prompt_command_action: disable_raw_mode is called
\* whatever the loop broke with; disabled is whether the call succeeds
RestoreAfterLoop(res, disabled) == IF disabled THEN "ok" ELSE "failed"

\* the loop of prompt_command_action is left: a failure of disable_raw_mode
\* is only warned about, and the terminal stays as it is
LeavePrompt(res) ==
    /\ \E disabled \in BOOLEAN :
        /\ restore' = RestoreAfterLoop(res, disabled)
        /\ raw_mode' = (RestoreAfterLoop(res, disabled) # "ok")
    /\ FinishSelection(res)

\* Tab: the next candidate is shown
KeyTab ==
    /\ InPrompt
    /\ tabs < MaxTabs
    /\ \E ev \in Events :
        /\ IsTab(ev)
        /\ last_event' = Some(ev)
    /\ selected_index' = NextSelected(selected_index, Len(Commands))
    /\ tabs' = tabs + 1
    /\ UNCHANGED <<chainVars, parserVars, inputVars, detVars, danger_read, decision, raw_mode, restore, action,
                   interrupted, ppc, commands_result, branch, stdout, executed, child,
                   outcome, exit_code>>

\* Enter: Execute with the candidate shown
KeyEnter ==
    /\ InPrompt
    /\ \E ev \in Events :
        /\ IsEnter(ev)
        /\ last_event' = Some(ev)
    /\ LeavePrompt(Ok([action |-> "Execute",
                       command |-> Commands[selected_index + 1]]))
    /\ UNCHANGED <<chainVars, parserVars, inputVars, detVars, danger_read, decision, selected_index,
                   tabs, interrupted, commands_result, branch, executed, child,
                   exit_code>>

\* Esc or Ctrl+C: Abort
KeyAbort ==
    /\ InPrompt
    /\ \E ev \in Events :
        /\ IsCtrlC(ev) \/ IsEsc(ev)
        /\ last_event' = Some(ev)
    /\ LeavePrompt(Ok([action |-> "Abort", command |-> << >>]))
    /\ UNCHANGED <<chainVars, parserVars, inputVars, detVars, danger_read, decision, selected_index,
                   tabs, interrupted, commands_result, branch, executed, child,
                   exit_code>>

\* any other key, a key release, a non-key event: nothing happens
KeyIgnored ==
    /\ InPrompt
    /\ \E ev \in Events :
        /\ IsIgnored(ev)
        /\ last_event' = Some(ev)
    /\ UNCHANGED <<chainVars, parserVars, inputVars, detVars, danger_read, decision, selected_index,
                   tabs, raw_mode, restore, action, interrupted, ppc, commands_result,
                   branch, stdout, executed, child, outcome, exit_code>>

\* event::read fails
KeyReadFails ==
    /\ InPrompt
    /\ last_event' = Some([type |-> "error"])
    /\ LeavePrompt(Err([kind |-> "IoError"]))
    /\ UNCHANGED <<chainVars, parserVars, inputVars, detVars, danger_read, decision, selected_index,
                   tabs, interrupted, commands_result, branch, executed, child,
                   exit_code>>

\* the arms of handle_cli on what execute_command returned, whose exit code
\* is status.code().unwrap_or(1)
AfterExecute(res) ==
    IF ~res.spawned THEN Err(General("Failed to execute command"))
    ELSE IF (IF res.status.some THEN res.status.v ELSE 1) = 0 THEN Ok(Unit)
    ELSE Err(General("Command exited with code"))

\* an Execute arm that also writes the command to standard output
ExecuteCommandAlsoPrinted ==
    /\ ppc = "executing"
    /\ executed' = Append(executed, action.v.command)
    /\ stdout' = stdout \o PrintCommand(action.v.command, tty, TRUE).out
    /\ \E res \in {[spawned |-> FALSE, status |-> NoneV],
                   [spawned |-> TRUE, status |-> Some(0)],
                   [spawned |-> TRUE, status |-> Some(1)],
                   [spawned |-> TRUE, status |-> NoneV]},
          shell_var \in {NoneV, Some("/bin/zsh")} :
        /\ child' = Some([program |-> IF shell_var.some THEN shell_var.v ELSE "/bin/sh",
                          args |-> <<"-c", action.v.command>>,
                          shell_var |-> shell_var, res |-> res])
        /\ outcome' = AfterExecute(res)
    /\ ppc' = "returned"
    /\ UNCHANGED <<chainVars, parserVars, inputVars, promptVars, detVars, interrupted,
                   commands_result, branch, exit_code>>

\* execute_command(&selected_command) and the match on its exit code: $SHELL
\* is unset or names a shell; the child is not spawned, exits with a code, or
\* is killed by a signal (no code)
ExecuteCommand ==
    /\ ppc = "executing"
    /\ executed' = Append(executed, action.v.command)
    /\ \E res \in {[spawned |-> FALSE, status |-> NoneV],
                   [spawned |-> TRUE, status |-> Some(0)],
                   [spawned |-> TRUE, status |-> Some(1)],
                   [spawned |-> TRUE, status |-> NoneV]},
          shell_var \in {NoneV, Some("/bin/zsh")} :
        /\ child' = Some([program |-> IF shell_var.some THEN shell_var.v ELSE "/bin/sh",
                          args |-> <<"-c", action.v.command>>,
                          shell_var |-> shell_var, res |-> res])
        /\ outcome' = AfterExecute(res)
    /\ ppc' = "returned"
    /\ UNCHANGED <<chainVars, parserVars, inputVars, promptVars, detVars, interrupted,
                   commands_result, branch, stdout, exit_code>>

\* main after run_main: the flag is checked, then the result is mapped
MainExit ==
    /\ ppc = "returned"
    /\ exit_code' = Some(IF interrupted THEN ExitInterrupted
                         ELSE IF outcome.ok THEN ExitSuccess
                         ELSE ExitCodeOfKind(outcome.e.kind))
    /\ ppc' = "exited"
    /\ UNCHANGED <<chainVars, parserVars, inputVars, promptVars, detVars, interrupted,
                   commands_result, branch, stdout, executed, child, outcome>>

PipeStart ==
    /\ interrupted = FALSE
    /\ commands_result = NoneV
    /\ branch = "none"
    /\ danger_read = NoneV
    /\ decision = NoneV
    /\ selected_index = 0
    /\ tabs = 0
    /\ last_event = NoneV
    /\ raw_mode = FALSE
    /\ restore = "none"
    /\ action = NoneV
    /\ stdout = << >>
    /\ executed = << >>
    /\ child = NoneV
    /\ outcome = NoneV
    /\ exit_code = NoneV

PipeInit ==
    /\ config \in [interactive : BOOLEAN, force : BOOLEAN, dry_run : BOOLEAN,
                   num_options : {ClampNumOptions(n) : n \in 0..MaxOptions \cup {MaxNumOptions + 1}}]
    /\ file_config \in [confirm_dangerous : BOOLEAN,
                        dangerous_patterns : {FileDefaultPatterns, <<BadPattern>>}]
    /\ tty \in [stdin : BOOLEAN, stdout : BOOLEAN, stderr : BOOLEAN]
    /\ ppc = "main"
    /\ PipeStart

PipeIdle ==
    /\ config = [interactive |-> FALSE, force |-> FALSE, dry_run |-> FALSE,
                 num_options |-> 1]
    /\ file_config = [confirm_dangerous |-> TRUE,
                      dangerous_patterns |-> FileDefaultPatterns]
    /\ tty = [stdin |-> FALSE, stdout |-> FALSE, stderr |-> FALSE]
    /\ ppc = "off"
    /\ PipeStart

Next ==
    \/ Signal
    \/ MainStart
    \/ RunMain
    \/ CheckBeforeProcessing
    \/ CheckAfterLogging
    \/ Generate
    \/ GenerationFailed
    \/ InterruptedBeforeOutput
    \/ DryRun
    \/ EnterDangerPrompt
    \/ DangerPromptRead
    \/ EmitDangerous
    \/ SelectionPromptUnavailable
    \/ SelectionPromptEntered
    \/ DirectEmit
    \/ KeyTab
    \/ KeyEnter
    \/ KeyAbort
    \/ KeyIgnored
    \/ KeyReadFails
    \/ ExecuteCommand
    \/ MainExit

\* one request through a ProviderChain
ChainSpecInit == ChainInit /\ DetInit /\ ParserIdle /\ PipeIdle
ChainSpec == ChainSpecInit /\ [][ChainNext]_vars

\* concurrent complete calls sharing the provider cache
CacheSpecInit == CacheInit /\ DetInit /\ ParserIdle /\ PipeIdle
CacheSpec ==
    CacheSpecInit
    /\ [][GetProviderLock \/ GetProviderLookup \/ GetProviderInit \/ CompleteContinue]_vars

\* the detector called any number of times in one process
DetectorSpecInit == ChainIdle /\ DetInit /\ ParserIdle /\ PipeIdle
DetectorSpec == DetectorSpecInit /\ [][DetectorCall \/ MatchingPatternCall]_vars

\* the parser called on one reply
ParserSpecInit == ChainIdle /\ DetInit /\ ParserInit /\ PipeIdle
ParserSpec == ParserSpecInit /\ [][CallExtractCommand \/ CallExtractCommands]_vars

\* one run of the program, from main to process::exit
Init == ChainIdle /\ DetInit /\ ParserIdle /\ PipeInit
Spec == Init /\ [][Next]_vars

---------------------------------------------------------------------------
(* Claims about ProviderChain::complete and the retry loop *)

Successes == {k \in 1..Len(trace) : trace[k].ev = "call_ok"}

\* C1: complete visits the providers in chain order, one at a time; a
\* provider that fails to initialize, is unavailable or errors never stops
\* the iteration; the first successful call ends it, so that there is at
\* most one successful call, no later provider is initialized or called,
\* and the response returned is that call's response.
C1_FirstSuccessWins ==
    /\ \A k \in 1..Len(trace) : trace[k].index = k
    /\ Cardinality(Successes) <= 1
    /\ \A k \in Successes : k = Len(trace) /\ cpc = "done"
    /\ Len(provider_instances)
         <= Len(trace) + (IF cpc \in {"request", "sleep"} THEN 1 ELSE 0)
    /\ cpc = "done" =>
         IF result.ok
         THEN /\ Successes = {Len(trace)}
              /\ call_result = Ok(result.v)
         ELSE /\ Successes = {}
              /\ Len(trace) = Len(providers)

\* C1 witness: a success behind a provider that failed to initialize, with
\* a later provider left untouched
C1_Witness ==
    /\ cpc = "done"
    /\ result.ok
    /\ Len(trace) = 2
    /\ trace[1].ev = "init_failed"
    /\ Len(providers) = 3
    /\ Len(provider_instances) = 2

AllRateLimited(n) == \A k \in 1..n : attempts[k] = "rate_limited"

\* C3: rate-limited attempts are retried at most 3 times, after sleeps of
\* 1s, 2s and 4s; then the rate-limit error is returned; a success after k
\* rate-limited attempts is returned after exactly k sleeps.
C3_RateLimitBackoff ==
    /\ Len(attempts) <= 4
    /\ Len(sleeps) <= 3
    /\ sleeps = SubSeq(<<1, 2, 4>>, 1, Len(sleeps))
    /\ call_result # NoneV =>
         LET n == Len(attempts)
         IN  /\ AllRateLimited(n) =>
                  /\ n = 4
                  /\ sleeps = <<1, 2, 4>>
                  /\ ~call_result.ok
                  /\ \E t \in ErrTexts : call_result.e = StatusErrorMsg(429, t)
             /\ (attempts[n] = "ok" /\ AllRateLimited(n - 1)) =>
                  /\ call_result.ok
                  /\ Len(sleeps) = n - 1

\* C3 witness: four rate-limited attempts in a row
C3_Witness ==
    /\ call_result # NoneV
    /\ Len(attempts) = 4
    /\ AllRateLimited(4)

\* C4: an error that is not an HTTP 429 reply ends the provider call at
\* once: no sleep and no further attempt follows it.
C4_OtherErrorsNeverRetried ==
    \A k \in 1..Len(attempts) :
        attempts[k] = "other_error" => (k = Len(attempts) /\ cpc # "sleep")

---------------------------------------------------------------------------
(* Claims about the dangerous-command detector *)

\* C5: when the dangerous-pattern set does not compile, is_dangerous_command
\* answers true whatever the command: both in the call that compiles a list
\* holding an invalid pattern and in every later call of the process, which
\* finds the failure in the OnceLock.
C5_CompileFailureIsDangerous ==
    det_call # NoneV =>
        /\ (DANGEROUS_REGEXES.some /\ ~DANGEROUS_REGEXES.v.ok) => det_call.res
        /\ (det_call.compiled /\ HasInvalidPattern(det_call.dangerous_patterns))
              => det_call.res

\* C5 witness: a harmless command, checked against a valid list after the
\* compilation had failed, is reported dangerous
C5_Witness ==
    /\ det_call # NoneV
    /\ ~det_call.compiled
    /\ ~DANGEROUS_REGEXES.v.ok
    /\ det_call.command = CmdLs
    /\ det_call.dangerous_patterns = FileDefaultPatterns
    /\ det_call.res

---------------------------------------------------------------------------
(* Claims about the orchestrator and its prompts *)

Returned == ppc \in {"returned", "exited"}

\* the command went to stdout as print_command writes it, or the write failed
PrintedOrWriteFailed(command) ==
    IF outcome.ok
    THEN stdout = (IF tty.stdout THEN command \o <<"\n">> ELSE command)
    ELSE ~tty.stdout /\ outcome = Err(WriteError) /\ stdout = << >>

\* C6: outside dry-run the branch taken after generation is a function of
\* the detector's verdict on the first candidate, of should_prompt (stdin a
\* terminal, stdout a terminal, confirm_dangerous, no --force) and of
\* interactive mode (--interactive, stdin and stdout terminals): dangerous
\* with should_prompt enters the danger prompt, dangerous without it is
\* printed with no prompt, safe and interactive enters the selection
\* prompt, anything else is printed and the pipeline stops.
C6_BranchDeterminedByInputs ==
    (branch \notin {"none", "dry_run"}) =>
        /\ ~config.dry_run
        /\ det_call # NoneV
        /\ det_call.command = FirstCommand
        /\ branch =
             (IF det_call.res
              THEN IF /\ tty.stdin /\ tty.stdout
                      /\ file_config.confirm_dangerous /\ ~config.force
                   THEN "danger_prompt"
                   ELSE "emit_dangerous"
              ELSE IF config.interactive /\ tty.stdin /\ tty.stdout
                   THEN "selection_prompt"
                   ELSE "emit")
        /\ branch \in {"emit_dangerous", "emit"} =>
              /\ Returned
              /\ danger_read = NoneV
              /\ last_event = NoneV
              /\ ~raw_mode
              /\ executed = << >>
              /\ PrintedOrWriteFailed(FirstCommand)

\* C6 witness: --force keeps a dangerous command from being prompted about,
\* on a terminal, with confirmation enabled and --interactive given
C6_Witness ==
    /\ branch = "emit_dangerous"
    /\ config.force /\ config.interactive
    /\ file_config.confirm_dangerous
    /\ tty.stdin /\ tty.stdout /\ tty.stderr
    /\ outcome = Ok(Unit)
    /\ stdout = CmdRmRoot \o <<"\n">>

\* the first character of text that is not whitespace, if there is one
FirstNonWhitespace(text) ==
    LET at == {i \in 1..Len(text) : text[i] \notin WhitespaceChars}
    IN  IF at = {} THEN NoneV
        ELSE Some(text[CHOOSE i \in at : \A j \in at : i <= j])

\* C7: the danger prompt resolves the line it read by its first
\* non-whitespace character, whatever its case: E is Execute, C is Copy, A is
\* Abort; end of input is Abort; any other leading character is an input
\* error, after which the orchestrator returns the Safety error of an Abort
\* and prints nothing.
C7_DangerPromptDecision ==
    danger_read # NoneV =>
        /\ danger_read.v.kind = "eof" => decision = Ok("Abort")
        /\ (danger_read.v.kind = "line"
              /\ FirstNonWhitespace(danger_read.v.text).some) =>
              LET lead == FirstNonWhitespace(danger_read.v.text).v
              IN  CASE lead \in {"e", "E"} -> decision = Ok("Execute")
                    [] lead \in {"c", "C"} -> decision = Ok("Copy")
                    [] lead \in {"a", "A"} -> decision = Ok("Abort")
                    [] OTHER ->
                         /\ ~decision.ok
                         /\ decision.e.kind = "InvalidInput"
                         /\ ~outcome.ok
                         /\ outcome.e.kind = "Safety"
                         /\ stdout = << >>

\* C7 witness: " e" followed by a newline is Execute
C7_Witness ==
    /\ danger_read = Some([kind |-> "line", text |-> <<" ", "e", "\n">>])
    /\ decision = Ok("Execute")
    /\ stdout # << >>

\* C8: when the danger prompt resolves to Abort (chosen, end of input, input
\* or I/O error) handle_cli returns a Safety error; its exit code is 5,
\* which is neither the API code 4 nor 0, and the process exits with it
\* unless a signal arrived; nothing is executed, nothing reaches stdout.
C8_AbortIsSafetyError ==
    (/\ branch = "danger_prompt"
     /\ decision # NoneV
     /\ (decision = Ok("Abort") \/ ~decision.ok)) =>
        /\ ~outcome.ok
        /\ outcome.e.kind = "Safety"
        /\ ExitCodeOfKind(outcome.e.kind) = 5
        /\ ExitCodeOfKind(outcome.e.kind) # ExitCodeOfKind("API")
        /\ ExitCodeOfKind("API") = 4
        /\ ExitCodeOfKind(outcome.e.kind) # ExitSuccess
        /\ executed = << >>
        /\ stdout = << >>
        /\ (ppc = "exited" /\ ~interrupted) => exit_code = Some(5)

\* C8 witness: end of input at the danger prompt, the process exits with 5
C8_Witness ==
    /\ ppc = "exited"
    /\ danger_read = Some([kind |-> "eof"])
    /\ decision = Ok("Abort")
    /\ exit_code = Some(5)

PressOf(ev, code) == ev.type = "key" /\ ev.kind = "Press" /\ ev.code = code
CtrlCPress(ev) == PressOf(ev, "Char_c") /\ ev.ctrl

\* a step of the selection prompt's loop: an event was read and handled
PromptStep ==
    /\ ppc = "selection_prompt"
    /\ interrupted' = interrupted
    /\ last_event' # NoneV

\* C9: in the selection prompt over N candidates the index starts at 0 and
\* stays in 0..N-1; each Tab sets it to (index + 1) mod N, so that it is
\* always the number of Tabs modulo N and N Tabs lead back to the start;
\* Enter ends the prompt with Execute and the candidate at index; Esc or
\* Ctrl+C ends it with Abort; every other key and every non-key event
\* leaves the index alone and the prompt waiting.
C9_SelectionKeys ==
    /\ [](ppc = "selection_prompt" =>
            /\ selected_index \in 0..(Len(Commands) - 1)
            /\ selected_index = tabs % Len(Commands))
    /\ [][PromptStep =>
            LET ev == last_event'.v
            IN  CASE ev.type = "error" -> TRUE
                  [] CtrlCPress(ev) \/ PressOf(ev, "Esc") ->
                       /\ action' = Ok([action |-> "Abort", command |-> << >>])
                       /\ ppc' # "selection_prompt"
                  [] PressOf(ev, "Tab") ->
                       /\ selected_index' = (selected_index + 1) % Len(Commands)
                       /\ ppc' = "selection_prompt"
                  [] PressOf(ev, "Enter") ->
                       /\ action' = Ok([action |-> "Execute",
                                        command |-> Commands[selected_index + 1]])
                       /\ ppc' = "executing"
                  [] OTHER ->
                       /\ selected_index' = selected_index
                       /\ ppc' = "selection_prompt"
                       /\ action' = action]_vars

\* C9 witness: two candidates, two Tabs, Enter: the first one is executed
C9_Witness ==
    /\ ppc = "executing"
    /\ Len(Commands) = 2
    /\ tabs = 2
    /\ selected_index = 0
    /\ action = Ok([action |-> "Execute", command |-> Commands[1]])

---------------------------------------------------------------------------
(* Claims about raw mode and about execution *)

\* prompt_command_action has returned after its loop had read an event
PromptLoopLeft == action # NoneV /\ last_event # NoneV

\* C11 as stated: once the selection prompt has put the terminal in raw
\* mode, the terminal is back in cooked mode when prompt_command_action
\* returns, on every exit path: Execute, Abort, and a key-read I/O error.
C11_CookedOnReturn == PromptLoopLeft => ~raw_mode

\* C11, amended: once the selection prompt has put the terminal in raw
\* mode, disable_raw_mode is called before prompt_command_action returns
\* on every exit path (Execute, Abort, a key-read I/O error); the terminal
\* is back in cooked mode exactly when that call succeeds, and it is in raw
\* mode only inside the prompt's loop or after that call has failed.
C11_RestoreAttempted ==
    /\ PromptLoopLeft =>
          /\ restore \in {"ok", "failed"}
          /\ raw_mode = (restore = "failed")
    /\ raw_mode => (ppc = "selection_prompt" \/ restore = "failed")
    /\ ppc = "selection_prompt" => (raw_mode /\ restore = "none")

\* C11 witness: the key read fails after a Tab and the terminal is cooked
\* again
C11_Witness ==
    /\ action = Err([kind |-> "IoError"])
    /\ last_event = Some([type |-> "error"])
    /\ tabs = 1
    /\ restore = "ok"
    /\ ~raw_mode

\* an Execute outcome has been acted on: the command it is about
ExecuteChosen ==
    IF decision = Ok("Execute") THEN Some(FirstCommand)
    ELSE IF action # NoneV /\ action.ok /\ action.v.action = "Execute"
    THEN Some(action.v.command)
    ELSE NoneV

\* C12: every Execute outcome, Decision::Execute of the danger prompt as
\* well as CommandAction::Execute of the selection prompt, runs the chosen
\* command synchronously through the shell $SHELL names (or /bin/sh) with
\* -c, and a non-zero exit code of the child ends the pipeline in failure.
C12_ExecuteRunsThroughShell ==
    (Returned /\ ExecuteChosen.some) =>
        /\ child # NoneV
        /\ child.v.program =
              (IF child.v.shell_var.some THEN child.v.shell_var.v ELSE "/bin/sh")
        /\ child.v.args = <<"-c", ExecuteChosen.v>>
        /\ (child.v.res.spawned /\ child.v.res.status # Some(0)) => ~outcome.ok

---------------------------------------------------------------------------
(* Claims about the response parser *)

\* extract_commands has been called: its result, the trimmed reply and the
\* reply without its surrounding fence
CommandsCalled == parse_call # NoneV /\ parse_call.fn = "extract_commands"
ReplyText == Trim(response_content.v)
ReplyJson == StripFence(ReplyText)

\* the commands of a list, trimmed, the blank ones dropped, in their order
Cleaned(l) == SelectSeq([k \in 1..Len(l) |-> Trim(l[k])], LAMBDA c : c # << >>)

\* what each strategy yields on the reply, << >> when it yields no command
Yield1 ==
    IF FromStrCommandsResponse(ReplyJson).ok
    THEN Cleaned(FromStrCommandsResponse(ReplyJson).v) ELSE << >>
Yield2 ==
    IF FromStrVecString(ReplyJson).ok
    THEN Cleaned(FromStrVecString(ReplyJson).v) ELSE << >>
BraceText ==
    IF /\ Find(ReplyJson, <<"{">>) # 0
       /\ Find(ReplyJson, <<"{">>) <= RFind(ReplyJson, <<"}">>)
    THEN SubSeq(ReplyJson, Find(ReplyJson, <<"{">>), RFind(ReplyJson, <<"}">>))
    ELSE << >>
Yield3 ==
    IF FromStrCommandsResponse(BraceText).ok
    THEN Cleaned(FromStrCommandsResponse(BraceText).v) ELSE << >>
Yield4 ==
    IF ExtractCommand(ReplyText) # << >> THEN <<ExtractCommand(ReplyText)>> ELSE << >>
FirstYield ==
    IF Yield1 # << >> THEN Yield1
    ELSE IF Yield2 # << >> THEN Yield2
    ELSE IF Yield3 # << >> THEN Yield3
    ELSE Yield4

\* the reply is the body, bare, padded with whitespace or in a fence with
\* the label json or none
PlainlyWrapped(body) ==
    response_content.v \in {body, <<" ">> \o body \o <<"\n">>,
                            Fenced(<< >>, body), Fenced(<<"j","s","o","n">>, body)}

ParsedEmpty ==
    \/ FromStrCommandsResponse(ReplyJson).ok /\ Yield1 = << >>
    \/ FromStrVecString(ReplyJson).ok /\ Yield2 = << >>
    \/ FromStrCommandsResponse(BraceText).ok /\ Yield3 = << >>

\* C14: whenever a strategy of extract_commands parses but is left with an
\* empty list after trimming and dropping the blank commands, it counts as
\* failed and the next fallback is tried: the result is that of the first
\* strategy that yields commands, an error when none does.
C14_EmptyParseFallsThrough ==
    (CommandsCalled /\ ParsedEmpty) =>
        IF FirstYield # << >>
        THEN parse_call.res = Ok(FirstYield)
        ELSE ~parse_call.res.ok

\* C15: on every text extract_commands returns an error or a non-empty list
\* of commands each trimmed and not empty, never a successful empty list;
\* an object whose "commands" array is empty is an error; and when no
\* strategy yields a command the error carries the reply.
C15_ErrorOrNonEmptyList ==
    CommandsCalled =>
        /\ parse_call.res.ok \/ "e" \in DOMAIN parse_call.res
        /\ parse_call.res.ok =>
               /\ parse_call.res.v # << >>
               /\ \A k \in 1..Len(parse_call.res.v) :
                      /\ parse_call.res.v[k] # << >>
                      /\ parse_call.res.v[k] = Trim(parse_call.res.v[k])
        /\ PlainlyWrapped(ObjectReply(<< >>)) => ~parse_call.res.ok
        /\ FirstYield = << >> =>
               /\ "e" \in DOMAIN parse_call.res
               /\ ReplyText = << >> \/ Contains(parse_call.res.e, ReplyText)

\* extract_command has been called on the reply
CommandCalled == parse_call # NoneV /\ parse_call.fn = "extract_command"

\* the first newline of s at or behind position i, 0 for none
NewlineFrom(s, i) ==
    IF \E j \in i..Len(s) : s[j] = "\n"
    THEN CHOOSE j \in i..Len(s) : s[j] = "\n" /\ \A k \in i..(j - 1) : s[k] # "\n"
    ELSE 0

\* the labels of a fence that holds a command: bash, sh, shell or none
ShellLabels == {<< >>, LabelBash, <<"s","h">>, <<"s","h","e","l","l">>}

\* the fenced blocks of s from position i on, read as markdown reads them (a
\* fence with its label up to the end of the line, the text, a closing
\* fence): the trimmed text of the first block with a shell label or none
RECURSIVE ShellFenceFrom(_, _)
ShellFenceFrom(s, i) ==
    The({ IF open = 0 THEN NoneV
          ELSE The({ IF nl = 0 THEN NoneV
                     ELSE The({ IF close = 0 THEN NoneV
                                ELSE IF Trim(SubSeq(s, open + 3, nl - 1)) \in ShellLabels
                                THEN Some(Trim(SubSeq(s, nl + 1, close - 1)))
                                ELSE ShellFenceFrom(s, close + 3)
                                : close \in {FenceFrom(s, nl + 1)} })
                     : nl \in {NewlineFrom(s, open + 3)} })
          : open \in {FenceFrom(s, i)} })

\* C17: extract_command never fails: on a reply with a fence labelled bash,
\* sh or shell, or an unlabelled fence, it returns the trimmed text inside
\* the first such fence, whatever stands around it; on any other reply it
\* returns the whole reply trimmed; on the empty reply the empty string.
C17_FirstShellFenceOrWholeReply ==
    CommandCalled =>
        /\ parse_call.res \in Seq({parse_call.res[k] : k \in DOMAIN parse_call.res})
        /\ parse_call.res =
              IF ShellFenceFrom(response_content.v, 1).some
              THEN ShellFenceFrom(response_content.v, 1).v
              ELSE Trim(response_content.v)
        /\ response_content.v = << >> => parse_call.res = << >>

---------------------------------------------------------------------------
(* Claims about generation and output *)

\* the model has replied, and its reply is empty or only whitespace
BlankReply == response_content # NoneV /\ Trim(response_content.v) = << >>

\* C16: an empty or whitespace-only reply of the model is a parse error in
\* single-command and in multi-command generation, and the pipeline never
\* prints or executes an empty command: generation gives no command that is
\* empty, none is executed, and standard output is never a bare newline.
C16_BlankReplyIsParseError ==
    /\ (BlankReply /\ commands_result # NoneV) => ~commands_result.ok
    /\ (commands_result # NoneV /\ commands_result.ok) =>
           \A k \in 1..Len(Commands) : Trim(Commands[k]) # << >>
    /\ \A k \in 1..Len(executed) : Trim(executed[k]) # << >>
    /\ stdout # <<"\n">>

\* C18: the list of candidate commands the selection prompt is given has
\* between 1 and 10 entries, whatever the model replied and whatever number
\* of options was asked for, and holds the commands of the reply in the
\* order of the reply.
C18_CandidateListBounded ==
    branch = "selection_prompt" =>
        /\ Len(Commands) \in MinNumOptions..MaxNumOptions
        /\ \A l \in SeqsUpTo(GenCommands, MaxCommands) :
               response_content.v = ObjectReply(l) => Commands = l

\* C19: whatever the program itself has written to standard output is
\* nothing or one generated command, trimmed, followed by a newline when
\* standard output is a terminal and by nothing when it is piped.
C19_StdoutIsTheCommand ==
    \/ stdout = << >>
    \/ /\ commands_result # NoneV /\ commands_result.ok
       /\ \E k \in 1..Len(Commands) :
              stdout = Trim(Commands[k]) \o (IF tty.stdout THEN <<"\n">> ELSE << >>)

---------------------------------------------------------------------------
(* Claims about signals *)

\* handle_cli has returned the error of an interruption
EndedInterrupted == outcome # NoneV /\ outcome = Err(InterruptedError)

\* C20: a signal can arrive at any moment before the process ends and sets
\* the flag, which is never cleared; at each checkpoint of handle_cli
\* (before processing, after logging, after a successful generation before
\* any output) a set flag ends the pipeline with the error "Interrupted by
\* signal", after which nothing is printed, prompted for or executed; a
\* signal during the request to the provider changes nothing but the flag,
\* the request runs to its end and the flag acts at the next checkpoint.
C20_FlagCheckedAtCheckpoints ==
    [][ /\ ppc # "exited" => ENABLED Signal
        /\ interrupted => interrupted'
        /\ (interrupted /\ ppc \in {"start", "logged"} /\ ppc' # ppc) =>
               (ppc' = "returned" /\ outcome' = Err(InterruptedError))
        /\ (/\ interrupted /\ ppc = "generated" /\ commands_result.ok
            /\ ppc' # ppc) =>
               (ppc' = "returned" /\ outcome' = Err(InterruptedError))
        /\ (ppc = "generating" /\ ~interrupted /\ interrupted') =>
               UNCHANGED <<ppc, response_content, commands_result, outcome, stdout>>
        /\ (ppc = "generating" /\ interrupted /\ ppc' # ppc) =>
               (ppc' \in {"generated", "exited"} /\ outcome' = NoneV)
        /\ EndedInterrupted =>
               /\ outcome' = outcome
               /\ stdout' = << >> /\ executed' = << >> /\ child' = NoneV
               /\ branch' = "none" /\ danger_read' = NoneV /\ ~raw_mode'
      ]_vars

\* C20 witness: the signal came while the request was in flight, the
\* request returned its commands, and the check before output ended the run
\* with nothing written
C20_Witness ==
    /\ EndedInterrupted
    /\ interrupted
    /\ commands_result # NoneV /\ commands_result.ok
    /\ stdout = << >> /\ executed = << >> /\ branch = "none"
    /\ exit_code = Some(ExitInterrupted)

---------------------------------------------------------------------------
(* Claims about the error the orchestrator returns for a failed request *)

\* generation failed on an error of the chain, and handle_cli has returned
ChainErrorSurfaced ==
    /\ commands_result # NoneV /\ ~commands_result.ok
    /\ "source" \in DOMAIN commands_result
    /\ outcome # NoneV

\* C21: a failure of the provider that came from an HTTP response with a
\* status code reaches the caller of handle_cli as ClaiError::API with that
\* status code, and a failure without an HTTP status (the request was not
\* sent, the body did not parse, no API key) as ClaiError::API with none.
C21_StatusCodeSurfaces ==
    ChainErrorSurfaced =>
        /\ ~outcome.ok /\ outcome.e.kind = "API"
        /\ \A o \in {x \in Outcomes : x.kind # "ok"} :
               commands_result.source = ProviderFailedError(OPENROUTER, MakeRequest(o).e) =>
                  outcome.e.status_code =
                     (IF o.kind = "status" THEN Some(o.code) ELSE NoneV)
        /\ commands_result.source = InitProvider(OPENROUTER, "absent").e =>
               outcome.e.status_code = NoneV

---------------------------------------------------------------------------
(* Claims about the provider cache under concurrent calls *)

\* C22: under any interleaving of concurrent complete calls on one chain, no
\* index has more than one instance constructed, a cached entry is never
\* replaced, and every successful lookup returns the instance the cache holds
\* for that index.
C22_AtMostOneInstancePerIndex ==
    [][ /\ \A i \in 1..Len(providers) :
             Cardinality({k \in 1..Len(constructed') : constructed'[k] = i}) <= 1
        /\ \A i \in 1..Len(provider_instances) :
             provider_instances[i].some =>
                /\ i <= Len(provider_instances')
                /\ provider_instances'[i] = provider_instances[i]
        /\ \A t \in DOMAIN callers' :
             (callers'[t].pc = "returned" /\ callers'[t].res.ok) =>
                /\ callers'[t].index <= Len(provider_instances')
                /\ provider_instances'[callers'[t].index] = Some(callers'[t].res.v) ]_vars

\* two threads asked for the same index: one built the instance, the other
\* was handed the same one from the cache
C22_Witness ==
    /\ Len(callers) >= 2
    /\ callers[1].pc = "returned" /\ callers[2].pc = "returned"
    /\ callers[1].index = callers[2].index
    /\ callers[1].res.ok /\ callers[2].res.ok
    /\ callers[1].res.v = callers[2].res.v
    /\ Cardinality({k \in 1..Len(constructed) : constructed[k] = callers[1].index}) = 1
---------------------------------------------------------------------------
(* Claims about the names of the chain *)

\* the names of a list, each kept at its first place
RECURSIVE FirstOccurrences(_)
FirstOccurrences(names) ==
    IF names = << >> THEN << >>
    ELSE <<Head(names)>>
         \o FirstOccurrences(SelectSeq(Tail(names), LAMBDA n : n # Head(names)))

\* C23: the name list ProviderChain::new builds starts with the default
\* provider, goes on with the configured fallbacks in their configured order,
\* and holds no name twice.
C23_DefaultFirstNoDuplicates ==
    cpc # "off" =>
        providers = FirstOccurrences(<<provider_config.default>> \o provider_config.fallback)
\* C26: parse_model splits the string at its first "/" into provider and
\* model, later "/" staying in the model; a string without "/" goes to the
\* default provider, which is the first provider of the chain, with the whole
\* string as model.
C26_SplitAtFirstSlash ==
    model_call # NoneV =>
        IF \E i \in 1..Len(model_call.v.model_str) : model_call.v.model_str[i] = "/"
        THEN /\ model_call.v.res[1] \o <<"/">> \o model_call.v.res[2] = model_call.v.model_str
             /\ \A i \in 1..Len(model_call.v.res[1]) : model_call.v.res[1][i] # "/"
        ELSE /\ model_call.v.res = <<provider_config.default, model_call.v.model_str>>
             /\ provider_config.default = providers[1]
---------------------------------------------------------------------------
(* Claims about the compiled pattern set and get_matching_pattern *)

\* the verdict the cell of the OnceLock gives on a command
CellVerdict(cell, command) ==
    IF ~cell.ok THEN TRUE
    ELSE \E k \in 1..Len(cell.v) : IsMatch(cell.v[k], command)

\* C24: the first danger check creates the compiled pattern set (or the
\* compile error) from its own configuration, the set is never replaced, and
\* every later call of is_dangerous_command or get_matching_pattern answers
\* from that set whatever configuration it is given.
C24_FirstCompilationKept ==
    [][ /\ DANGEROUS_REGEXES.some => DANGEROUS_REGEXES' = DANGEROUS_REGEXES
        /\ (~DANGEROUS_REGEXES.some /\ det_call' # det_call) =>
               DANGEROUS_REGEXES' = Some(CompileDangerousRegexes(det_call'.dangerous_patterns))
        /\ (~DANGEROUS_REGEXES.some /\ pattern_call' # pattern_call) =>
               DANGEROUS_REGEXES' = Some(CompileDangerousRegexes(pattern_call'.dangerous_patterns))
        /\ (DANGEROUS_REGEXES.some /\ det_call' # det_call) =>
               det_call'.res = CellVerdict(DANGEROUS_REGEXES.v, det_call'.command)
        /\ (DANGEROUS_REGEXES.some /\ pattern_call' # pattern_call) =>
               pattern_call'.res.some =
                  (/\ DANGEROUS_REGEXES.v.ok
                   /\ CellVerdict(DANGEROUS_REGEXES.v, pattern_call'.command)) ]_vars

\* C24 witness: after the default list was compiled, "ls" is checked under a
\* configuration whose only pattern is "ls" and passes as harmless
C24_Witness ==
    /\ det_call # NoneV
    /\ ~det_call.compiled
    /\ DANGEROUS_REGEXES = Some(CompileDangerousRegexes(FileDefaultPatterns))
    /\ det_call.command = CmdLs
    /\ det_call.dangerous_patterns = <<CmdLs>>
    /\ ~det_call.res
\* C25: get_matching_pattern returns Some(index, source) exactly when
\* is_dangerous_command returns true on the same command and configuration;
\* the index is the lowest index of a matching pattern and the source is the
\* source string of the pattern compiled at that index.
C25_PatternIffDangerous ==
    pattern_call # NoneV =>
        /\ pattern_call.res.some =
              IsDangerousCommand(pattern_call.command, pattern_call.dangerous_patterns,
                                 DANGEROUS_REGEXES).res
        /\ pattern_call.res.some =>
              /\ IsMatch(DANGEROUS_REGEXES.v.v[pattern_call.res.v[1] + 1], pattern_call.command)
              /\ \A k \in 1..pattern_call.res.v[1] :
                     ~IsMatch(DANGEROUS_REGEXES.v.v[k], pattern_call.command)
              /\ pattern_call.res.v[2] = DANGEROUS_REGEXES.v.v[pattern_call.res.v[1] + 1].src
---------------------------------------------------------------------------
(* Claims about --dry-run, the exit code and what is executed *)

\* handle_cli has returned after a successful generation
ReturnedAfterGeneration ==
    /\ Returned
    /\ commands_result # NoneV /\ commands_result.ok
    /\ outcome # NoneV

\* no detector call, no prompt, no execution so far
NothingButOutput ==
    /\ det_call = NoneV /\ DANGEROUS_REGEXES = NoneV
    /\ danger_read = NoneV /\ decision = NoneV
    /\ action = NoneV /\ last_event = NoneV /\ tabs = 0 /\ ~raw_mode
    /\ executed = << >> /\ child = NoneV

\* every candidate on standard output, as the dry-run loop writes them
AllCandidatesPrinted ==
    stdout = DryRunOut(Commands, tty, Len(Commands))
             \o (IF Commands # << >> THEN <<"\n">> ELSE << >>)

C28_InterruptedExits130 ==
    (ppc = "exited" /\ interrupted) => exit_code = Some(ExitInterrupted)
\* C29: every command handed to execute_command is one the detector was
\* applied to with result false, for any candidate list and any sequence of
\* Tab and Enter in the selection prompt.
C29_ExecutedWasClassifiedSafe ==
    \A k \in 1..Len(executed) :
        /\ det_call # NoneV
        /\ det_call.command = executed[k]
        /\ ~det_call.res
\* C30: outside dry-run one invocation writes at most one candidate to
\* standard output, once, or executes at most one candidate, once, or does
\* neither; it never does both, and what is written or executed is one
\* candidate of the generated list.
C30_OneOutcomeOneCandidate ==
    ~config.dry_run =>
        /\ Len(executed) <= 1
        /\ executed # << >> =>
              /\ stdout = << >>
              /\ \E k \in 1..Len(Commands) : executed[1] = Commands[k]
        /\ stdout # << >> =>
              /\ executed = << >>
              /\ \E k \in 1..Len(Commands) :
                     stdout = PrintCommand(Commands[k], tty, TRUE).out

\* C30 witness: of two candidates the second was executed, once, and nothing
\* was written to standard output
C30_Witness ==
    /\ ~config.dry_run
    /\ ppc = "exited"
    /\ commands_result # NoneV /\ commands_result.ok
    /\ Len(Commands) >= 2
    /\ executed = <<Commands[2]>>
    /\ Commands[2] # Commands[1]
    /\ stdout = << >>
====
